---- MODULE Spec2Model ----
(***************************************************************************)
(* WikiSort (src/WikiSort.c): a stable bottom-up merge sort that merges in *)
(* place with internal buffers.  The array is a function from 0-based     *)
(* indices to items [value, index]; `index` is the item's position in the *)
(* input (the harness's Test.index), which is what makes stability        *)
(* observable.  The driver new_WikiSort is a state machine whose program  *)
(* counter `pc` walks the loops of the source; the toolbox functions are   *)
(* operators computed the way the source computes them.                    *)
(***************************************************************************)
EXTENDS Integers, Sequences, FiniteSets, TLC

(***************************************************************************)
(* Bounds of the model.                                                    *)
(***************************************************************************)
\* every array over values 0..MaxVal is an input up to this length
MaxFullLen == 5
\* patterned inputs (value = (mul * i) % mod) go up to this length
MaxLen == 40
\* multipliers and moduli of the patterned inputs
MaxMul == 2
MaxMod == 4
MaxVal == 1
\* calls with any comparator and any element width take inputs up to this length
MaxAnyLen == 12
\* the toolbox functions are called on items of values 0..MaxToolVal, the
\* searches and Rotate on ranges of up to MaxRangeLen items
MaxToolVal == 2
MaxRangeLen == 8
\* the merges are called on runs of up to MaxRunLen items each
MaxRunLen == 4
\* size_t is modelled at this modulus (indices of the model stay far below it)
SizeModulus == 16777216

(***************************************************************************)
(* Program constants.                                                      *)
(***************************************************************************)
\* #define CACHE_SIZE 0
CACHE_SIZE == 0
\* the third fixed cache size of the dynamic policy
FixedCache == 512
\* sizeof(Test): two size_t fields
SizeofTest == 16
\* WikiIterator_new(len, 4)
MinLevel == 4
\* one 16-bit limb of a size_t / int
Limb == 65536
HalfLimb == 32768

VARIABLES
    array,       \* the array being sorted: [0..len-1 -> item]
    cache,       \* the scratch cache: [0..cache_size-1 -> item]
    len,         \* new_WikiSort's len
    size,        \* the element width new_WikiSort works with
    size_arg,    \* the size argument given to WikiSort
    compare,     \* the Comparison callback (its name)
    cache_size,
    cache_null,  \* cache == NULL
    iterator,    \* the WikiIterator
    pc,          \* position in new_WikiSort
    lv,          \* locals of one merge level (buffers, pulls, block_size ...)
    mv,          \* locals of one (A, B) merge (blockA, lastA, lastB, blockB ...)
    input,       \* the array as it was given (never written)
    mallocs,     \* the malloc calls made so far: <<[count, ok]>>
    fault,       \* "none", or the first access outside the array / cache
    item1, item2, result   \* one call of new_compare on two size_t values

callVars == <<len, size, size_arg, compare, input>>
cmpVars == <<item1, item2, result>>
vars == <<array, cache, cache_size, cache_null, iterator, pc, lv, mv, mallocs,
          fault, callVars, cmpVars>>

(***************************************************************************)
(* size_t arithmetic, Min, Max, Range.                                     *)
(***************************************************************************)
SizeT(x) == x % SizeModulus

Min(a, b) == IF a <= b THEN a ELSE b

Max(a, b) == IF a > b THEN a ELSE b

Range_new(start, end) == [start |-> start, end |-> end]

Range_length(range) == SizeT(range.end - range.start)

\* the largest r in lo..hi with r * r <= n
RECURSIVE SqrtBetween(_, _, _)
SqrtBetween(n, lo, hi) ==
    IF lo >= hi THEN lo
    ELSE LET mid == (lo + hi + 1) \div 2
         IN  IF mid * mid <= n THEN SqrtBetween(n, mid, hi)
             ELSE SqrtBetween(n, lo, mid - 1)

\* a faulty Sqrt that takes no root
SqrtUnrooted(n) == n

\* floor(sqrt(n)), as the conversion of sqrt()'s double to size_t gives it
\* (for n below HalfLimb squared)
Sqrt(n) == SqrtBetween(n, 0, Min(n, HalfLimb - 1))

\* a faulty FloorPowerOfTwo that rounds nothing
FloorPowerOfTwoUnrounded(value) == value

RECURSIVE FloorPowerOfTwoFrom(_, _)
FloorPowerOfTwoFrom(value, p) ==
    IF 2 * p <= value THEN FloorPowerOfTwoFrom(value, 2 * p) ELSE p

\* 63 -> 32, 64 -> 64: x | x>>1 | ... spreads the top bit, x - (x >> 1) keeps it
FloorPowerOfTwo(value) == IF value = 0 THEN 0 ELSE FloorPowerOfTwoFrom(value, 1)

(***************************************************************************)
(* The comparator.  A size_t is four 16-bit limbs, least significant       *)
(* first; new_compare returns the difference of the two values converted  *)
(* to int, that is its low 32 bits read as two's complement.               *)
(***************************************************************************)
Limbs(n) == <<n % Limb, (n \div Limb) % Limb, 0, 0>>

\* the low 32 bits of (a - b) mod 2^64, as two limbs
SubLow32(a, b) ==
    LET d0 == a[1] - b[1]
        borrow == IF d0 < 0 THEN 1 ELSE 0
        d1 == a[2] - b[2] - borrow
    IN  <<d0 % Limb, d1 % Limb>>

\* conversion of the low 32 bits to int
ToInt(d) == IF d[2] >= HalfLimb THEN (d[2] - Limb) * Limb + d[1]
            ELSE d[2] * Limb + d[1]

new_compare(a, b) == ToInt(SubLow32(a, b))

\* the callback `compare` applied to two items
Compare(x, y) ==
    CASE compare = "new_compare" -> new_compare(Limbs(x.value), Limbs(y.value))
      [] compare = "always_negative" -> -1
      [] compare = "always_positive" -> 1
      [] compare = "always_zero" -> 0
      [] compare = "reversed" -> new_compare(Limbs(y.value), Limbs(x.value))
      [] OTHER -> 0


(***************************************************************************)
(* Loops.  A loop of the source is a condition and a body on the record of *)
(* its locals; While runs `while (Cond(s)) s = Body(s)` for at most n      *)
(* passes, n being a bound on the passes the loop can make.  It runs the   *)
(* first half of the passes, then the rest.                                *)
(***************************************************************************)
RECURSIVE While(_, _, _, _)
While(Cond(_), Body(_), s, n) ==
    IF ~Cond(s) \/ n <= 0 THEN s
    ELSE IF n = 1 THEN Body(s)
    ELSE While(Cond, Body, While(Cond, Body, s, n \div 2), n - n \div 2)

(***************************************************************************)
(* Swap, BlockSwap, Reverse, memcpy/memmove.                               *)
(***************************************************************************)
\* a faulty Swap that copies instead of exchanging: a[j] is kept, a[i] is lost
SwapOverwriting(a, i, j) == [a EXCEPT ![i] = a[j]]

Swap(a, i, j) == [a EXCEPT ![i] = a[j], ![j] = a[i]]

\* for (index = 0; index < block_size; index++) Swap(start1 + index, start2 + index)
BlockSwapCond(s) == s.index < s.block_size

BlockSwapBody(s) ==
    [s EXCEPT !.a = Swap(s.a, s.start1 + s.index, s.start2 + s.index),
              !.index = s.index + 1]

BlockSwap(a, start1, start2, block_size) ==
    While(BlockSwapCond, BlockSwapBody,
          [a |-> a, start1 |-> start1, start2 |-> start2,
           block_size |-> block_size, index |-> 0],
          block_size).a

\* for (index = Range_length(range) / 2; index > 0; index--)
\*     Swap(range.start + index - 1, range.end - index)
ReverseCond(s) == s.index > 0

ReverseBody(s) ==
    [s EXCEPT !.a = Swap(s.a, s.range.start + s.index - 1, s.range.end - s.index),
              !.index = s.index - 1]

Reverse(a, range) ==
    While(ReverseCond, ReverseBody,
          [a |-> a, range |-> range, index |-> Range_length(range) \div 2],
          Range_length(range) \div 2).a

\* memcpy / memmove of n items from src[from..] to dst[to..]; memmove reads all
\* before it writes, and the memcpy calls of the source never overlap
Copy(dst, to, src, from, n) ==
    [i \in DOMAIN dst |-> IF i >= to /\ i < to + n THEN src[from + (i - to)] ELSE dst[i]]

(***************************************************************************)
(* Search: BinaryFirst, BinaryLast and the four galloping Find* variants.  *)
(* `value` is the item the value pointer points at when the call is made.  *)
(***************************************************************************)
RECURSIVE BinaryFirstLoop(_, _, _, _)
BinaryFirstLoop(a, value, start, end) ==
    IF start < end
    THEN LET mid == start + (end - start) \div 2
         IN  IF Compare(a[mid], value) < 0
             THEN BinaryFirstLoop(a, value, mid + 1, end)
             ELSE BinaryFirstLoop(a, value, start, mid)
    ELSE start

\* a faulty BinaryFirst without the closing test of the last item
BinaryFirstUnadjusted(a, value, range) ==
    IF range.start >= range.end THEN range.start
    ELSE BinaryFirstLoop(a, value, range.start, range.end - 1)

BinaryFirst(a, value, range) ==
    IF range.start >= range.end THEN range.start
    ELSE LET start == BinaryFirstLoop(a, value, range.start, range.end - 1)
         IN  IF start = range.end - 1 /\ Compare(a[start], value) < 0
             THEN start + 1 ELSE start

RECURSIVE BinaryLastLoop(_, _, _, _)
BinaryLastLoop(a, value, start, end) ==
    IF start < end
    THEN LET mid == start + (end - start) \div 2
         IN  IF Compare(value, a[mid]) >= 0
             THEN BinaryLastLoop(a, value, mid + 1, end)
             ELSE BinaryLastLoop(a, value, start, mid)
    ELSE start

\* a faulty BinaryLast that compares as BinaryFirst does
BinaryLastAsFirst(a, value, range) ==
    IF range.start >= range.end THEN range.end
    ELSE LET start == BinaryFirstLoop(a, value, range.start, range.end - 1)
         IN  IF start = range.end - 1 /\ Compare(a[start], value) < 0
             THEN start + 1 ELSE start

BinaryLast(a, value, range) ==
    IF range.start >= range.end THEN range.end
    ELSE LET start == BinaryLastLoop(a, value, range.start, range.end - 1)
         IN  IF start = range.end - 1 /\ Compare(value, a[start]) >= 0
             THEN start + 1 ELSE start

RECURSIVE FindFirstForwardLoop(_, _, _, _, _)
FindFirstForwardLoop(a, value, range, skip, index) ==
    IF Compare(a[index - 1], value) < 0
    THEN IF index >= range.end - skip
         THEN BinaryFirst(a, value, Range_new(index, range.end))
         ELSE FindFirstForwardLoop(a, value, range, skip, index + skip)
    ELSE BinaryFirst(a, value, Range_new(index - skip, index))

\* a faulty FindFirstForward that finds the end of the equal items
FindFirstForwardPastEqual(a, value, range, unique) ==
    BinaryLast(a, value, range)

FindFirstForward(a, value, range, unique) ==
    IF Range_length(range) = 0 THEN range.start
    ELSE LET skip == Max(Range_length(range) \div unique, 1)
         IN  FindFirstForwardLoop(a, value, range, skip, range.start + skip)

RECURSIVE FindLastForwardLoop(_, _, _, _, _)
FindLastForwardLoop(a, value, range, skip, index) ==
    IF Compare(value, a[index - 1]) >= 0
    THEN IF index >= range.end - skip
         THEN BinaryLast(a, value, Range_new(index, range.end))
         ELSE FindLastForwardLoop(a, value, range, skip, index + skip)
    ELSE BinaryLast(a, value, Range_new(index - skip, index))

FindLastForward(a, value, range, unique) ==
    IF Range_length(range) = 0 THEN range.start
    ELSE LET skip == Max(Range_length(range) \div unique, 1)
         IN  FindLastForwardLoop(a, value, range, skip, range.start + skip)

RECURSIVE FindFirstBackwardLoop(_, _, _, _, _)
FindFirstBackwardLoop(a, value, range, skip, index) ==
    IF index > range.start /\ Compare(a[index - 1], value) >= 0
    THEN IF index < range.start + skip
         THEN BinaryFirst(a, value, Range_new(range.start, index))
         ELSE FindFirstBackwardLoop(a, value, range, skip, index - skip)
    ELSE BinaryFirst(a, value, Range_new(index, index + skip))

\* a faulty FindFirstBackward that finds the end of the equal items
FindFirstBackwardPastEqual(a, value, range, unique) ==
    FindLastForward(a, value, range, unique)

FindFirstBackward(a, value, range, unique) ==
    IF Range_length(range) = 0 THEN range.start
    ELSE LET skip == Max(Range_length(range) \div unique, 1)
         IN  FindFirstBackwardLoop(a, value, range, skip, range.end - skip)

RECURSIVE FindLastBackwardLoop(_, _, _, _, _)
FindLastBackwardLoop(a, value, range, skip, index) ==
    IF index > range.start /\ Compare(value, a[index - 1]) < 0
    THEN IF index < range.start + skip
         THEN BinaryLast(a, value, Range_new(range.start, index))
         ELSE FindLastBackwardLoop(a, value, range, skip, index - skip)
    ELSE BinaryLast(a, value, Range_new(index, index + skip))

\* a faulty FindLastBackward that searches as FindFirstBackward does
FindLastBackwardAsFirst(a, value, range, unique) ==
    FindFirstBackward(a, value, range, unique)

FindLastBackward(a, value, range, unique) ==
    IF Range_length(range) = 0 THEN range.start
    ELSE LET skip == Max(Range_length(range) \div unique, 1)
         IN  FindLastBackwardLoop(a, value, range, skip, range.end - skip)


(***************************************************************************)
(* InsertionSort and Rotate.  Rotate returns the array and the cache: its  *)
(* first two branches copy the smaller side through the cache.             *)
(***************************************************************************)
\* a faulty inner loop that leaves the item where it is
InsertionSortInnerSkipped(a, range, j) == a

RECURSIVE InsertionSortInner(_, _, _)
InsertionSortInner(a, range, j) ==
    IF j > range.start /\ Compare(a[j], a[j - 1]) < 0
    THEN InsertionSortInner(Swap(a, j, j - 1), range, j - 1)
    ELSE a

\* for (i = range.start + 1; i < range.end; i++)
InsertionSortCond(s) == s.i < s.range.end

InsertionSortBody(s) ==
    [s EXCEPT !.a = InsertionSortInner(s.a, s.range, s.i), !.i = s.i + 1]

InsertionSort(a, range) ==
    While(InsertionSortCond, InsertionSortBody,
          [a |-> a, range |-> range, i |-> range.start + 1],
          Range_length(range)).a

\* a faulty Rotate without the closing Reverse of the whole range
RotateHalvesReversed(a, c, amount, range, cs) ==
    LET split == range.start + amount
    IN  [a |-> Reverse(Reverse(a, Range_new(range.start, split)),
                       Range_new(split, range.end)),
         c |-> c]

Rotate(a, c, amount, range, cs) ==
    IF Range_length(range) = 0 THEN [a |-> a, c |-> c]
    ELSE LET split == range.start + amount
             range1 == Range_new(range.start, split)
             range2 == Range_new(split, range.end)
             len1 == Range_length(range1)
             len2 == Range_length(range2)
             reversed == [a |-> Reverse(Reverse(Reverse(a, range1), range2), range),
                          c |-> c]
         IN  IF len1 <= len2
             THEN IF len1 <= cs
                  THEN LET c1 == Copy(c, 0, a, range1.start, len1)
                           a1 == Copy(a, range1.start, a, range2.start, len2)
                       IN  [a |-> Copy(a1, range1.start + len2, c1, 0, len1), c |-> c1]
                  ELSE reversed
             ELSE IF len2 <= cs
                  THEN LET c1 == Copy(c, 0, a, range2.start, len2)
                           a1 == Copy(a, range2.end - len1, a, range1.start, len1)
                       IN  [a |-> Copy(a1, range1.start, c1, 0, len2), c |-> c1]
                  ELSE reversed

(***************************************************************************)
(* The merges.  Each is its while (true) loop as a body on the locals,     *)
(* `done` being set where the source breaks.                               *)
(***************************************************************************)
\* MergeInto: from[A] and from[B] merged into `into`, starting at into[at]
MergeCond(s) == ~s.done

\* a faulty MergeInto body that takes from B on a tie (> 0 for >= 0)
MergeIntoBodyTieToB(s) ==
    IF Compare(s.from[s.B_index], s.from[s.A_index]) > 0
    THEN LET into1 == [s.into EXCEPT ![s.insert_index] = s.from[s.A_index]]
         IN  IF s.A_index + 1 = s.A.end
             THEN [s EXCEPT !.into = Copy(into1, s.insert_index + 1, s.from, s.B_index,
                                          s.B.end - s.B_index),
                            !.done = TRUE]
             ELSE [s EXCEPT !.into = into1, !.A_index = s.A_index + 1,
                            !.insert_index = s.insert_index + 1]
    ELSE LET into1 == [s.into EXCEPT ![s.insert_index] = s.from[s.B_index]]
         IN  IF s.B_index + 1 = s.B.end
             THEN [s EXCEPT !.into = Copy(into1, s.insert_index + 1, s.from, s.A_index,
                                          s.A.end - s.A_index),
                            !.done = TRUE]
             ELSE [s EXCEPT !.into = into1, !.B_index = s.B_index + 1,
                            !.insert_index = s.insert_index + 1]

MergeIntoBody(s) ==
    IF Compare(s.from[s.B_index], s.from[s.A_index]) >= 0
    THEN LET into1 == [s.into EXCEPT ![s.insert_index] = s.from[s.A_index]]
         IN  IF s.A_index + 1 = s.A.end
             THEN [s EXCEPT !.into = Copy(into1, s.insert_index + 1, s.from, s.B_index,
                                          s.B.end - s.B_index),
                            !.done = TRUE]
             ELSE [s EXCEPT !.into = into1, !.A_index = s.A_index + 1,
                            !.insert_index = s.insert_index + 1]
    ELSE LET into1 == [s.into EXCEPT ![s.insert_index] = s.from[s.B_index]]
         IN  IF s.B_index + 1 = s.B.end
             THEN [s EXCEPT !.into = Copy(into1, s.insert_index + 1, s.from, s.A_index,
                                          s.A.end - s.A_index),
                            !.done = TRUE]
             ELSE [s EXCEPT !.into = into1, !.B_index = s.B_index + 1,
                            !.insert_index = s.insert_index + 1]

MergeInto(from, A, B, into, at) ==
    While(MergeCond, MergeIntoBody,
          [from |-> from, into |-> into, A |-> A, B |-> B, A_index |-> A.start,
           B_index |-> B.start, insert_index |-> at, done |-> FALSE],
          Range_length(A) + Range_length(B)).into

\* a faulty MergeExternal body that takes from B on a tie (> 0 for >= 0)
MergeExternalBodyTieToB(s) ==
    IF Compare(s.a[s.B_index], s.c[s.A_index]) > 0
    THEN [s EXCEPT !.a = [s.a EXCEPT ![s.insert_index] = s.c[s.A_index]],
                   !.A_index = s.A_index + 1,
                   !.insert_index = s.insert_index + 1,
                   !.done = (s.A_index + 1 = Range_length(s.A))]
    ELSE [s EXCEPT !.a = [s.a EXCEPT ![s.insert_index] = s.a[s.B_index]],
                   !.B_index = s.B_index + 1,
                   !.insert_index = s.insert_index + 1,
                   !.done = (s.B_index + 1 = s.B.end)]

\* MergeExternal: A's items are in cache[0..|A|), B is in the array; the merge
\* is written over the array from A.start on
MergeExternalBody(s) ==
    IF Compare(s.a[s.B_index], s.c[s.A_index]) >= 0
    THEN [s EXCEPT !.a = [s.a EXCEPT ![s.insert_index] = s.c[s.A_index]],
                   !.A_index = s.A_index + 1,
                   !.insert_index = s.insert_index + 1,
                   !.done = (s.A_index + 1 = Range_length(s.A))]
    ELSE [s EXCEPT !.a = [s.a EXCEPT ![s.insert_index] = s.a[s.B_index]],
                   !.B_index = s.B_index + 1,
                   !.insert_index = s.insert_index + 1,
                   !.done = (s.B_index + 1 = s.B.end)]

MergeExternal(a, c, A, B) ==
    LET s == [a |-> a, c |-> c, A |-> A, B |-> B, A_index |-> 0, B_index |-> B.start,
              insert_index |-> A.start, done |-> FALSE]
        r == IF Range_length(B) > 0 /\ Range_length(A) > 0
             THEN While(MergeCond, MergeExternalBody, s,
                        Range_length(A) + Range_length(B))
             ELSE s
    IN  Copy(r.a, r.insert_index, c, r.A_index, Range_length(A) - r.A_index)

\* MergeInternal: A's items were swapped into buffer[0..|A|); every item is
\* swapped into place, so the buffer keeps its own items, in another order
MergeInternalBody(s) ==
    IF Compare(s.a[s.B.start + s.B_count], s.a[s.buffer.start + s.A_count]) >= 0
    THEN [s EXCEPT !.a = Swap(s.a, s.A.start + s.insert, s.buffer.start + s.A_count),
                   !.A_count = s.A_count + 1,
                   !.insert = s.insert + 1,
                   !.done = (s.A_count + 1 >= Range_length(s.A))]
    ELSE [s EXCEPT !.a = Swap(s.a, s.A.start + s.insert, s.B.start + s.B_count),
                   !.B_count = s.B_count + 1,
                   !.insert = s.insert + 1,
                   !.done = (s.B_count + 1 >= Range_length(s.B))]

\* a faulty MergeInternal without the closing BlockSwap of what is left of A
MergeInternalWithoutTail(a, A, B, buffer) ==
    LET s == [a |-> a, A |-> A, B |-> B, buffer |-> buffer, A_count |-> 0,
              B_count |-> 0, insert |-> 0, done |-> FALSE]
    IN  IF Range_length(B) > 0 /\ Range_length(A) > 0
        THEN While(MergeCond, MergeInternalBody, s,
                   Range_length(A) + Range_length(B)).a
        ELSE a

MergeInternal(a, A, B, buffer) ==
    LET s == [a |-> a, A |-> A, B |-> B, buffer |-> buffer, A_count |-> 0,
              B_count |-> 0, insert |-> 0, done |-> FALSE]
        r == IF Range_length(B) > 0 /\ Range_length(A) > 0
             THEN While(MergeCond, MergeInternalBody, s,
                        Range_length(A) + Range_length(B))
             ELSE s
    IN  BlockSwap(r.a, buffer.start + r.A_count, A.start + r.insert,
                  Range_length(A) - r.A_count)

\* one pass of MergeInPlace's while (true): the array and cache after the
\* rotation, the new A and B, and whether the loop was left
MergeInPlacePass(a, c, A, B, cs) ==
    LET mid == BinaryFirst(a, a[A.start], B)
        amount == mid - A.end
        m == Rotate(a, c, Range_length(A), Range_new(A.start, mid), cs)
    IN  IF B.end = mid
        THEN [a |-> m.a, c |-> m.c, A |-> A, B |-> B, done |-> TRUE]
        ELSE LET B1 == Range_new(mid, B.end)
                 A1 == Range_new(A.start + amount, B1.start)
                 A2 == Range_new(BinaryLast(m.a, m.a[A1.start], A1), A1.end)
             IN  [a |-> m.a, c |-> m.c, A |-> A2, B |-> B1,
                  done |-> Range_length(A2) = 0]

(***************************************************************************)
(* WikiIterator.                                                           *)
(***************************************************************************)
WikiIterator_begin(me) == [me EXCEPT !.numerator = 0, !.decimal = 0]

\* a faulty nextRange that drops the carry of the numerator
WikiIterator_nextRangeNoCarry(me) ==
    LET start == me.decimal
        decimal == me.decimal + me.decimal_step
    IN  [me |-> [me EXCEPT !.decimal = decimal,
                           !.numerator = me.numerator + me.numerator_step],
         range |-> Range_new(start, decimal)]

\* the iterator after the call, and the range returned
WikiIterator_nextRange(me) ==
    LET start == me.decimal
        decimal == me.decimal + me.decimal_step
        numerator == me.numerator + me.numerator_step
        carry == numerator >= me.denominator
        me1 == [me EXCEPT !.decimal = IF carry THEN decimal + 1 ELSE decimal,
                          !.numerator = IF carry THEN numerator - me.denominator
                                        ELSE numerator]
    IN  [me |-> me1, range |-> Range_new(start, me1.decimal)]

WikiIterator_finished(me) == me.decimal >= me.size

\* a faulty nextLevel that leaves the steps as they are
WikiIterator_nextLevelSameStep(me) == [me |-> me, more |-> me.decimal_step < me.size]

\* a faulty nextLevel without the carry of lines 417-421
WikiIterator_nextLevelNoCarry(me) ==
    LET me1 == [me EXCEPT !.decimal_step = me.decimal_step + me.decimal_step,
                          !.numerator_step = me.numerator_step + me.numerator_step]
    IN  [me |-> me1, more |-> me1.decimal_step < me1.size]

\* the iterator after the call, and the bool returned
WikiIterator_nextLevel(me) ==
    LET decimal_step == me.decimal_step + me.decimal_step
        numerator_step == me.numerator_step + me.numerator_step
        carry == numerator_step >= me.denominator
        me1 == [me EXCEPT !.decimal_step = IF carry THEN decimal_step + 1
                                           ELSE decimal_step,
                          !.numerator_step = IF carry THEN numerator_step - me.denominator
                                             ELSE numerator_step]
    IN  [me |-> me1, more |-> me1.decimal_step < me1.size]

\* a faulty WikiIterator_length that gives half the step
WikiIterator_lengthHalved(me) == me.decimal_step \div 2

WikiIterator_length(me) == me.decimal_step

\* a faulty WikiIterator_new whose denominator is half of what it should be
WikiIterator_newCoarse(size2, min_level) ==
    LET power_of_two == FloorPowerOfTwo(size2)
        denominator == Max(power_of_two \div (2 * min_level), 1)
    IN  WikiIterator_begin(
            [size |-> size2, power_of_two |-> power_of_two,
             numerator |-> 0, decimal |-> 0,
             denominator |-> denominator,
             decimal_step |-> size2 \div denominator,
             numerator_step |-> size2 % denominator])

WikiIterator_new(size2, min_level) ==
    LET power_of_two == FloorPowerOfTwo(size2)
        denominator == power_of_two \div min_level
    IN  WikiIterator_begin(
            [size |-> size2, power_of_two |-> power_of_two,
             numerator |-> 0, decimal |-> 0,
             denominator |-> denominator,
             decimal_step |-> size2 \div denominator,
             numerator_step |-> size2 % denominator])

\* the iterator before WikiIterator_new has run
NoIterator ==
    [size |-> 0, power_of_two |-> 0, numerator |-> 0, decimal |-> 0,
     denominator |-> 0, decimal_step |-> 0, numerator_step |-> 0]

(***************************************************************************)
(* The base pass: sorting networks made stable by the order[] vector.      *)
(***************************************************************************)
\* a faulty NEW_SWAP that leaves order[] out of the test
NEW_SWAP_unordered(s, start, x, y) ==
    IF Compare(s.a[start + y], s.a[start + x]) < 0
    THEN [a |-> Swap(s.a, start + x, start + y), order |-> s.order]
    ELSE s

\* a faulty NEW_SWAP that swaps the items and not their order[] entries
NEW_SWAP_order_kept(s, start, x, y) ==
    IF \/ Compare(s.a[start + y], s.a[start + x]) < 0
       \/ /\ s.order[x] > s.order[y]
          /\ Compare(s.a[start + x], s.a[start + y]) >= 0
    THEN [a |-> Swap(s.a, start + x, start + y), order |-> s.order]
    ELSE s

\* NEW_SWAP(x, y) on the network state [a, order]
NEW_SWAP(s, start, x, y) ==
    IF \/ Compare(s.a[start + y], s.a[start + x]) < 0
       \/ /\ s.order[x] > s.order[y]
          /\ Compare(s.a[start + x], s.a[start + y]) >= 0
    THEN [a |-> Swap(s.a, start + x, start + y),
          order |-> [s.order EXCEPT ![x] = s.order[y], ![y] = s.order[x]]]
    ELSE s

\* the NEW_SWAP sequence for a range of each length
Network(length) ==
    CASE length = 8 ->
           << <<0,1>>, <<2,3>>, <<4,5>>, <<6,7>>, <<0,2>>, <<1,3>>, <<4,6>>,
              <<5,7>>, <<1,2>>, <<5,6>>, <<0,4>>, <<3,7>>, <<1,5>>, <<2,6>>,
              <<1,4>>, <<3,6>>, <<2,4>>, <<3,5>>, <<3,4>> >>
      [] length = 7 ->
           << <<1,2>>, <<3,4>>, <<5,6>>, <<0,2>>, <<3,5>>, <<4,6>>, <<0,1>>,
              <<4,5>>, <<2,6>>, <<0,4>>, <<1,5>>, <<0,3>>, <<2,5>>, <<1,3>>,
              <<2,4>>, <<2,3>> >>
      [] length = 6 ->
           << <<1,2>>, <<4,5>>, <<0,2>>, <<3,5>>, <<0,1>>, <<3,4>>, <<2,5>>,
              <<0,3>>, <<1,4>>, <<2,4>>, <<1,3>>, <<2,3>> >>
      [] length = 5 ->
           << <<0,1>>, <<3,4>>, <<2,4>>, <<2,3>>, <<1,4>>, <<0,3>>, <<0,2>>,
              <<1,3>>, <<1,2>> >>
      [] length = 4 ->
           << <<0,1>>, <<2,3>>, <<0,2>>, <<1,3>>, <<1,2>> >>
      [] OTHER -> << >>

\* the NEW_SWAP calls of one range, in turn
NetworkCond(s) == s.k <= Len(s.pairs)

NetworkBody(s) ==
    LET n == NEW_SWAP([a |-> s.a, order |-> s.order], s.start,
                      s.pairs[s.k][1], s.pairs[s.k][2])
    IN  [s EXCEPT !.a = n.a, !.order = n.order, !.k = s.k + 1]

\* one pass of the base loop's body on `range`
SortRange(a, range) ==
    While(NetworkCond, NetworkBody,
          [a |-> a, order |-> [i \in 0..7 |-> i], start |-> range.start,
           pairs |-> Network(Range_length(range)), k |-> 1],
          Len(Network(Range_length(range))))

\* len < 4: the hard-coded insertion sort
SortSmallArray(a, n) ==
    IF n = 3
    THEN LET a1 == IF Compare(a[1], a[0]) < 0 THEN Swap(a, 0, 1) ELSE a
         IN  IF Compare(a1[2], a1[1]) < 0
             THEN LET a2 == Swap(a1, 1, 2)
                  IN  IF Compare(a2[1], a2[0]) < 0 THEN Swap(a2, 0, 1) ELSE a2
             ELSE a1
    ELSE IF n = 2
    THEN IF Compare(a[1], a[0]) < 0 THEN Swap(a, 0, 1) ELSE a
    ELSE a

(***************************************************************************)
(* The cache policy.                                                       *)
(***************************************************************************)
\* what malloc's block holds before it is written
Uninitialized == [value |-> 0, index |-> -1]

NewCache(n) == [i \in 0..(n - 1) |-> Uninitialized]

\* a faulty policy without the closing `cache_size = 0`
DynamicCachePolicyKeepingSize(n, ok) ==
    LET size1 == (n + 1) \div 2
        size2 == Sqrt(size1) + 1
        call1 == <<[count |-> size1, ok |-> ok[1]]>>
        call2 == Append(call1, [count |-> size2, ok |-> ok[2]])
        call3 == Append(call2, [count |-> FixedCache, ok |-> ok[3]])
    IN  IF ok[1]
        THEN [cache_size |-> size1, cache_null |-> FALSE, mallocs |-> call1]
        ELSE IF ok[2]
        THEN [cache_size |-> size2, cache_null |-> FALSE, mallocs |-> call2]
        ELSE IF size2 > FixedCache
        THEN [cache_size |-> FixedCache, cache_null |-> ~ok[3], mallocs |-> call3]
        ELSE [cache_size |-> size2, cache_null |-> TRUE, mallocs |-> call2]

\* #if DYNAMIC_CACHE: ok[k] says whether the k-th malloc call succeeds.  The
\* result is the cache size, whether cache is NULL, and the calls made.
DynamicCachePolicy(n, ok) ==
    LET size1 == (n + 1) \div 2
        size2 == Sqrt(size1) + 1
        call1 == <<[count |-> size1, ok |-> ok[1]]>>
        call2 == Append(call1, [count |-> size2, ok |-> ok[2]])
        call3 == Append(call2, [count |-> FixedCache, ok |-> ok[3]])
    IN  IF ok[1]
        THEN [cache_size |-> size1, cache_null |-> FALSE, mallocs |-> call1]
        ELSE IF ok[2]
        THEN [cache_size |-> size2, cache_null |-> FALSE, mallocs |-> call2]
        ELSE IF size2 > FixedCache
        THEN IF ok[3]
             THEN [cache_size |-> FixedCache, cache_null |-> FALSE, mallocs |-> call3]
             ELSE [cache_size |-> 0, cache_null |-> TRUE, mallocs |-> call3]
        ELSE [cache_size |-> 0, cache_null |-> TRUE, mallocs |-> call2]


(***************************************************************************)
(* The harness's checks: WikiVerify and the reference MergeSort.           *)
(***************************************************************************)
\* WikiVerify does not assert on `range`
WikiVerify(a, range) ==
    \A index \in (range.start + 1)..(range.end - 1) :
        \/ Compare(a[index - 1], a[index]) < 0
        \/ /\ Compare(a[index], a[index - 1]) >= 0
           /\ a[index].index > a[index - 1].index

\* MergeSortR's merge loop: A is in the buffer, B in the array
MergeSortRCond(s) ==
    s.A_count < Range_length(s.A) /\ s.B_count < Range_length(s.B)

MergeSortRBody(s) ==
    IF Compare(s.a[s.A.end + s.B_count], s.buffer[s.A_count]) >= 0
    THEN [s EXCEPT !.a = [s.a EXCEPT ![s.A.start + s.insert] = s.buffer[s.A_count]],
                   !.A_count = s.A_count + 1,
                   !.insert = s.insert + 1]
    ELSE [s EXCEPT !.a = [s.a EXCEPT ![s.A.start + s.insert] = s.a[s.A.end + s.B_count]],
                   !.B_count = s.B_count + 1,
                   !.insert = s.insert + 1]

\* the standard merge sort the harness compares WikiSort's result against
RECURSIVE MergeSortR(_, _)
MergeSortR(a, range) ==
    IF Range_length(range) < 32
    THEN InsertionSort(a, range)
    ELSE LET mid == range.start + (range.end - range.start) \div 2
             A0 == Range_new(range.start, mid)
             B == Range_new(mid, range.end)
             a1 == MergeSortR(MergeSortR(a, A0), B)
             A == Range_new(BinaryLast(a1, a1[B.start], A0), A0.end)
             buffer == [i \in 0..(Range_length(A) - 1) |-> a1[A.start + i]]
             m == While(MergeSortRCond, MergeSortRBody,
                        [a |-> a1, buffer |-> buffer, A |-> A, B |-> B,
                         A_count |-> 0, B_count |-> 0, insert |-> 0],
                        Range_length(A) + Range_length(B))
         IN  Copy(m.a, A.start + m.insert, buffer, m.A_count,
                  Range_length(A) - m.A_count)

MergeSort(a, n) == MergeSortR(a, Range_new(0, n))

(***************************************************************************)
(* Inputs and the initial state.                                           *)
(***************************************************************************)
Item(value, index) == [value |-> value, index |-> index]

\* the harness's array: item i holds values[i] and index i
MakeArray(n, values) == [i \in 0..(n - 1) |-> Item(values[i], i)]

\* every array of up to MaxFullLen items over the values 0..MaxVal
FullInputs ==
    UNION {{MakeArray(n, f) : f \in [0..(n - 1) -> 0..MaxVal]} : n \in 0..MaxFullLen}

\* patterned arrays, after the harness's test cases: few values (RandomFew,
\* MostlyEqual, Equal), many values (Random), MostlyDescending,
\* MostlyAscending and Jittered (item i holds i, or now and then i - 2)
Pattern(n, shape, mul, mod) ==
    MakeArray(n, [i \in 0..(n - 1) |->
        CASE shape = 0 -> (mul * i) % mod
          [] shape = 1 -> (mul * i * i + i) % (8 * mod + 1)
          [] shape = 2 -> (n - i) * mul + (i % mod)
          [] shape = 3 -> i * mul + ((i * i) % mod)
          [] OTHER -> IF i >= 2 /\ i % (mod + 4) = mul THEN i - 2 ELSE i])

PatternInputs ==
    {Pattern(n, shape, mul, mod) :
        n \in 0..MaxLen, shape \in 0..4, mul \in 1..MaxMul, mod \in 1..MaxMod}

Inputs == FullInputs \cup PatternInputs

NoLevel ==
    [block_size |-> 0, buffer_size |-> 0,
     buffer1 |-> Range_new(0, 0), buffer2 |-> Range_new(0, 0),
     find |-> 0, find_separately |-> FALSE, pull_index |-> 0,
     pull |-> [k \in 0..1 |-> [from |-> 0, to |-> 0, count |-> 0,
                               range |-> Range_new(0, 0)]],
     index |-> 0, count |-> 0, unique |-> 0, buffer |-> Range_new(0, 0)]

NoMerge ==
    [A |-> Range_new(0, 0), B |-> Range_new(0, 0),
     blockA |-> Range_new(0, 0), lastA |-> Range_new(0, 0),
     lastB |-> Range_new(0, 0), blockB |-> Range_new(0, 0),
     indexA |-> 0, B_split |-> 0, B_remaining |-> 0,
     mergeA |-> Range_new(0, 0), mergeB |-> Range_new(0, 0), ret |-> "none"]

\* a call WikiSort(in, Len(in), width, cmp) about to be made
InitCall(in, width, cmp) ==
    /\ input = in
    /\ array = in
    /\ len = Cardinality(DOMAIN in)
    /\ size_arg = width
    /\ size = 0
    /\ compare = cmp
    /\ cache = << >>
    /\ cache_size = 0
    /\ cache_null = TRUE
    /\ iterator = NoIterator
    /\ pc = "WikiSort"
    /\ lv = NoLevel
    /\ mv = NoMerge
    /\ mallocs = << >>
    /\ fault = "none"
    /\ item1 = Limbs(0)
    /\ item2 = Limbs(0)
    /\ result = 0

\* the callbacks a caller may pass: the harness's new_compare, two more
\* total orders (descending, everything equal) and two that are no order
Comparators ==
    {"new_compare", "reversed", "always_zero", "always_negative", "always_positive"}

TotalOrders == {"new_compare", "reversed", "always_zero"}

\* the size arguments a caller may pass
Widths == {SizeofTest \div 2, SizeofTest, 2 * SizeofTest}

ShortInputs == {in \in Inputs : Cardinality(DOMAIN in) <= MaxAnyLen}

\* the harness's call WikiSort(array1, total, sizeof(Test), new_compare) on
\* every input, and a caller's call with any width and callback on the short
\* ones
Init ==
    \/ \E in \in Inputs : InitCall(in, SizeofTest, "new_compare")
    \/ \E in \in ShortInputs, width \in Widths, cmp \in Comparators :
           InitCall(in, width, cmp)

(***************************************************************************)
(* new_WikiSort, step by step.                                             *)
(***************************************************************************)
policyVars == <<cache_size, cache_null, mallocs>>

InArray(i) == i >= 0 /\ i < len

RangeOK(r) == 0 <= r.start /\ r.start <= r.end /\ r.end <= len

\* a range the source reads the first and the last item of
NonEmpty(r) == RangeOK(r) /\ r.start < r.end

\* Rotate touches nothing when the range is empty
RotateOK(amount, r) ==
    \/ Range_length(r) = 0
    \/ RangeOK(r) /\ 0 <= amount /\ amount <= r.end - r.start

BlockSwapOK(start1, start2, n) ==
    \/ n = 0
    \/ n > 0 /\ InArray(start1) /\ InArray(start1 + n - 1)
             /\ InArray(start2) /\ InArray(start2 + n - 1)

\* an access outside the array or the cache: the run is followed no further
Fault(what) ==
    /\ fault' = what
    /\ pc' = "fault"
    /\ UNCHANGED <<array, cache, iterator, lv, mv, policyVars, callVars, cmpVars>>

\* WikiSort(array, len, size, compare): lines 1440-1443.  new_WikiSort is given
\* sizeof(Test) for the width; when the caller's elements have another width
\* the bytes it moves are not the caller's elements, and the run is followed
\* no further
WikiSort ==
    /\ pc = "WikiSort"
    /\ size' = SizeofTest
    /\ IF size' = size_arg
       THEN pc' = "new_WikiSort" /\ fault' = fault
       ELSE pc' = "fault" /\ fault' = "element width"
    /\ UNCHANGED <<array, cache, iterator, lv, mv, policyVars,
                   len, size_arg, compare, input, cmpVars>>

\* len < 4: lines 634-662
SortSmall ==
    /\ pc = "new_WikiSort"
    /\ len < 4
    /\ array' = SortSmallArray(array, len)
    /\ pc' = "done"
    /\ UNCHANGED <<cache, iterator, lv, mv, fault, policyVars, callVars, cmpVars>>

\* lines 667-668
BaseBegin ==
    /\ pc = "new_WikiSort"
    /\ len >= 4
    /\ iterator' = WikiIterator_begin(WikiIterator_new(len, MinLevel))
    /\ pc' = "base"
    /\ UNCHANGED <<array, cache, lv, mv, fault, policyVars, callVars, cmpVars>>

\* one pass of the loop of lines 669-767
BaseRange ==
    /\ pc = "base"
    /\ ~WikiIterator_finished(iterator)
    /\ LET n == WikiIterator_nextRange(iterator)
       IN  IF ~RangeOK(n.range)
           THEN Fault("base range")
           ELSE /\ iterator' = n.me
                /\ array' = SortRange(array, n.range).a
                /\ UNCHANGED <<pc, cache, lv, mv, fault, policyVars, callVars, cmpVars>>

\* the loop ends; lines 768-771
BaseEnd ==
    /\ pc = "base"
    /\ WikiIterator_finished(iterator)
    /\ pc' = IF len < 8 THEN "done" ELSE "cache"
    /\ UNCHANGED <<array, cache, iterator, lv, mv, fault, policyVars, callVars, cmpVars>>

\* #if !DYNAMIC_CACHE: lines 625-628
StaticCache ==
    /\ pc = "cache"
    /\ cache_size' = CACHE_SIZE
    /\ cache_null' = TRUE
    /\ cache' = << >>
    /\ pc' = "level"
    /\ UNCHANGED <<array, iterator, lv, mv, mallocs, fault, callVars, cmpVars>>

\* #if DYNAMIC_CACHE: lines 773-802
DynamicCache ==
    /\ pc = "cache"
    /\ \E ok \in [1..3 -> BOOLEAN] :
          LET p == DynamicCachePolicy(len, ok)
          IN  /\ cache_size' = p.cache_size
              /\ cache_null' = p.cache_null
              /\ mallocs' = p.mallocs
              /\ cache' = NewCache(p.cache_size)
    /\ pc' = "level"
    /\ UNCHANGED <<array, iterator, lv, mv, fault, callVars, cmpVars>>

(***************************************************************************)
(* The merge levels: lines 805-1428.                                       *)
(***************************************************************************)
\* the variables no step of a level writes
levelFixed == <<policyVars, callVars, cmpVars, fault>>

FourWayFits ==
    /\ (WikiIterator_length(iterator) + 1) * 4 <= cache_size
    /\ WikiIterator_length(iterator) * 4 <= len

\* lines 810-817
LevelFourWay ==
    /\ pc = "level"
    /\ WikiIterator_length(iterator) < cache_size
    /\ FourWayFits
    /\ iterator' = WikiIterator_begin(iterator)
    /\ pc' = "fourway"
    /\ UNCHANGED <<array, cache, lv, mv, levelFixed>>

\* lines 810, 901-903
LevelTwoWay ==
    /\ pc = "level"
    /\ WikiIterator_length(iterator) < cache_size
    /\ ~FourWayFits
    /\ iterator' = WikiIterator_begin(iterator)
    /\ pc' = "twoway"
    /\ UNCHANGED <<array, cache, lv, mv, levelFixed>>

\* lines 936-980
LevelInPlace ==
    /\ pc = "level"
    /\ WikiIterator_length(iterator) >= cache_size
    /\ LET block_size == Sqrt(WikiIterator_length(iterator))
           buffer_size == WikiIterator_length(iterator) \div block_size + 1
           one == block_size <= cache_size
           separately == ~one /\ buffer_size + buffer_size > WikiIterator_length(iterator)
       IN  lv' = [NoLevel EXCEPT !.block_size = block_size,
                                 !.buffer_size = buffer_size,
                                 !.find = IF one \/ separately THEN buffer_size
                                          ELSE buffer_size + buffer_size,
                                 !.find_separately = separately]
    /\ iterator' = WikiIterator_begin(iterator)
    /\ pc' = "scan"
    /\ UNCHANGED <<array, cache, mv, levelFixed>>

\* the two halves of a pair that was found in order, copied as they stand
\* into `into` at `at`; the reverse copy puts B before A
CopyInOrder(from, A, B, into, at) ==
    Copy(Copy(into, at, from, A.start, Range_length(A)),
         at + Range_length(A), from, B.start, Range_length(B))

CopyReversed(from, A, B, into, at) ==
    Copy(Copy(into, at + Range_length(B), from, A.start, Range_length(A)),
         at, from, B.start, Range_length(B))

\* lines 827-832, 853-860 and 873-880: what is done with the pair A, B.
\* `which` is 1 for A1|B1, 2 for A2|B2 and 3 for the two halves in the
\* cache; line 860 (A2|B2) tests the comparison itself, not `< 0`
FourWayChoice(a, A, B, which) ==
    IF Compare(a[B.end - 1], a[A.start]) < 0 THEN "reversed"
    ELSE IF which = 2
    THEN IF Compare(a[B.start], a[A.end - 1]) # 0 THEN "merge" ELSE "in order"
    ELSE IF Compare(a[B.start], a[A.end - 1]) < 0 THEN "merge" ELSE "in order"

\* the body of the loop of lines 818-894 on the ranges the iterator gave:
\* the array and the cache after it, whether line 845 left with `continue`,
\* the two halves A3 and B3 in the cache, and what was done with each pair
FourWayPass(a, c, A1, B1, A2, B2) ==
    LET Into(choice, from, A, B, into, at) ==
            CASE choice = "reversed" -> CopyReversed(from, A, B, into, at)
              [] choice = "merge" -> MergeInto(from, A, B, into, at)
              [] OTHER -> CopyInOrder(from, A, B, into, at)
        choice1 == FourWayChoice(a, A1, B1, 1)
        skip == /\ choice1 = "in order"
                /\ Compare(a[B2.start], a[A2.end - 1]) >= 0
                /\ Compare(a[A2.start], a[B1.end - 1]) >= 0
        c1 == Into(choice1, a, A1, B1, c, 0)
        A1B1 == Range_new(A1.start, B1.end)
        choice2 == FourWayChoice(a, A2, B2, 2)
        c2 == Into(choice2, a, A2, B2, c1, Range_length(A1B1))
        A2B2 == Range_new(A2.start, B2.end)
        A3 == Range_new(0, Range_length(A1B1))
        B3 == Range_new(Range_length(A1B1), Range_length(A1B1) + Range_length(A2B2))
        choice3 == FourWayChoice(c2, A3, B3, 3)
    IN  [a |-> IF skip THEN a ELSE Into(choice3, c2, A3, B3, a, A1.start),
         c |-> IF skip THEN c ELSE c2,
         skip |-> skip, A3 |-> A3, B3 |-> B3,
         choice |-> <<choice1, choice2, choice3>>]

\* one pass of the loop of lines 818-894
FourWayMerge ==
    /\ pc = "fourway"
    /\ ~WikiIterator_finished(iterator)
    /\ LET n1 == WikiIterator_nextRange(iterator)
           n2 == WikiIterator_nextRange(n1.me)
           n3 == WikiIterator_nextRange(n2.me)
           n4 == WikiIterator_nextRange(n3.me)
           A1 == n1.range
           B1 == n2.range
           A2 == n3.range
           B2 == n4.range
       IN  IF ~(/\ NonEmpty(A1) /\ NonEmpty(B1) /\ NonEmpty(A2) /\ NonEmpty(B2)
                /\ B2.end - A1.start <= cache_size)
           THEN Fault("four-way ranges")
           ELSE LET r == FourWayPass(array, cache, A1, B1, A2, B2)
                IN  /\ iterator' = n4.me
                    /\ array' = r.a
                    /\ cache' = r.c
                    /\ UNCHANGED <<pc, lv, mv, levelFixed>>

\* lines 896-898: two levels were merged, so nextLevel is called here as well
FourWayEnd ==
    /\ pc = "fourway"
    /\ WikiIterator_finished(iterator)
    /\ iterator' = WikiIterator_nextLevel(iterator).me
    /\ pc' = "nextLevel"
    /\ UNCHANGED <<array, cache, lv, mv, levelFixed>>

\* one pass of the loop of lines 904-920
TwoWayMerge ==
    /\ pc = "twoway"
    /\ ~WikiIterator_finished(iterator)
    /\ LET n1 == WikiIterator_nextRange(iterator)
           n2 == WikiIterator_nextRange(n1.me)
           A == n1.range
           B == n2.range
       IN  IF ~(NonEmpty(A) /\ NonEmpty(B) /\ Range_length(A) <= cache_size)
           THEN Fault("two-way ranges")
           ELSE LET reversed == Compare(array[B.end - 1], array[A.start]) < 0
                    merge == Compare(array[B.start], array[A.end - 1]) < 0
                    r == Rotate(array, cache, Range_length(A),
                                Range_new(A.start, B.end), cache_size)
                    c1 == Copy(cache, 0, array, A.start, Range_length(A))
                IN  /\ iterator' = n2.me
                    /\ array' = IF reversed THEN r.a
                                ELSE IF merge THEN MergeExternal(array, c1, A, B)
                                ELSE array
                    /\ cache' = IF reversed THEN r.c ELSE IF merge THEN c1 ELSE cache
                    /\ UNCHANGED <<pc, lv, mv, levelFixed>>

TwoWayEnd ==
    /\ pc = "twoway"
    /\ WikiIterator_finished(iterator)
    /\ pc' = "nextLevel"
    /\ UNCHANGED <<array, cache, iterator, lv, mv, levelFixed>>

(***************************************************************************)
(* The in-place path, step 1: find and pull out the internal buffers.      *)
(***************************************************************************)
\* lines 996-1004: count the unique values at the start of A
RECURSIVE CountUniqueA(_, _, _, _, _)
CountUniqueA(a, A, find, last, count) ==
    IF count < find
    THEN LET index == FindLastForward(a, a[last], Range_new(last + 1, A.end), find - count)
         IN  IF index = A.end THEN [index |-> last, count |-> count]
             ELSE CountUniqueA(a, A, find, index, count + 1)
    ELSE [index |-> last, count |-> count]

\* lines 1055-1063: count the unique values at the end of B
RECURSIVE CountUniqueB(_, _, _, _, _)
CountUniqueB(a, B, find, last, count) ==
    IF count < find
    THEN LET index == FindFirstBackward(a, a[last], Range_new(B.start, last), find - count)
         IN  IF index = B.start THEN [index |-> last, count |-> count]
             ELSE CountUniqueB(a, B, find, index - 1, count + 1)
    ELSE [index |-> last, count |-> count]

\* #define PULL(_to)
PULL(l, A, B, count, index, to) ==
    [l EXCEPT !.pull[l.pull_index] =
        [range |-> Range_new(A.start, B.end), count |-> count, from |-> index, to |-> to]]

\* lines 1006-1051: what the count found in A does to the level's locals, and
\* whether the scan is left
FoundInA(l, A, B, index, count) ==
    IF count >= l.buffer_size
    THEN LET p == [PULL(l, A, B, count, index, A.start) EXCEPT !.pull_index = 1]
         IN  IF count = l.buffer_size + l.buffer_size
             THEN [l |-> [p EXCEPT !.buffer1 = Range_new(A.start, A.start + l.buffer_size),
                                   !.buffer2 = Range_new(A.start + l.buffer_size,
                                                         A.start + count)],
                   break |-> TRUE]
             ELSE IF l.find = l.buffer_size + l.buffer_size
             THEN [l |-> [p EXCEPT !.buffer1 = Range_new(A.start, A.start + count),
                                   !.find = l.buffer_size],
                   break |-> FALSE]
             ELSE IF l.block_size <= cache_size
             THEN [l |-> [p EXCEPT !.buffer1 = Range_new(A.start, A.start + count)],
                   break |-> TRUE]
             ELSE IF l.find_separately
             THEN [l |-> [p EXCEPT !.buffer1 = Range_new(A.start, A.start + count),
                                   !.find_separately = FALSE],
                   break |-> FALSE]
             ELSE [l |-> [p EXCEPT !.buffer2 = Range_new(A.start, A.start + count)],
                   break |-> TRUE]
    ELSE IF l.pull_index = 0 /\ count > Range_length(l.buffer1)
    THEN [l |-> PULL([l EXCEPT !.buffer1 = Range_new(A.start, A.start + count)],
                     A, B, count, index, A.start),
          break |-> FALSE]
    ELSE [l |-> l, break |-> FALSE]

\* FoundInB without the adjustment of lines 1102-1105: the first pull's range
\* still ends at B.end
FoundInBRangeKept(l, A, B, index, count) ==
    IF count >= l.buffer_size
    THEN LET p == [PULL(l, A, B, count, index, B.end) EXCEPT !.pull_index = 1]
         IN  IF count = l.buffer_size + l.buffer_size
             THEN [l |-> [p EXCEPT !.buffer1 = Range_new(B.end - count,
                                                         B.end - l.buffer_size),
                                   !.buffer2 = Range_new(B.end - l.buffer_size, B.end)],
                   break |-> TRUE]
             ELSE IF l.find = l.buffer_size + l.buffer_size
             THEN [l |-> [p EXCEPT !.buffer1 = Range_new(B.end - count, B.end),
                                   !.find = l.buffer_size],
                   break |-> FALSE]
             ELSE IF l.block_size <= cache_size
             THEN [l |-> [p EXCEPT !.buffer1 = Range_new(B.end - count, B.end)],
                   break |-> TRUE]
             ELSE IF l.find_separately
             THEN [l |-> [p EXCEPT !.buffer1 = Range_new(B.end - count, B.end),
                                   !.find_separately = FALSE],
                   break |-> FALSE]
             ELSE [l |-> [p EXCEPT !.buffer2 = Range_new(B.end - count, B.end)],
                   break |-> TRUE]
    ELSE IF l.pull_index = 0 /\ count > Range_length(l.buffer1)
    THEN [l |-> PULL([l EXCEPT !.buffer1 = Range_new(B.end - count, B.end)],
                     A, B, count, index, B.end),
          break |-> FALSE]
    ELSE [l |-> l, break |-> FALSE]

\* lines 1065-1117: the same for the count found in B
FoundInB(l, A, B, index, count) ==
    IF count >= l.buffer_size
    THEN LET p == [PULL(l, A, B, count, index, B.end) EXCEPT !.pull_index = 1]
         IN  IF count = l.buffer_size + l.buffer_size
             THEN [l |-> [p EXCEPT !.buffer1 = Range_new(B.end - count,
                                                         B.end - l.buffer_size),
                                   !.buffer2 = Range_new(B.end - l.buffer_size, B.end)],
                   break |-> TRUE]
             ELSE IF l.find = l.buffer_size + l.buffer_size
             THEN [l |-> [p EXCEPT !.buffer1 = Range_new(B.end - count, B.end),
                                   !.find = l.buffer_size],
                   break |-> FALSE]
             ELSE IF l.block_size <= cache_size
             THEN [l |-> [p EXCEPT !.buffer1 = Range_new(B.end - count, B.end)],
                   break |-> TRUE]
             ELSE IF l.find_separately
             THEN [l |-> [p EXCEPT !.buffer1 = Range_new(B.end - count, B.end),
                                   !.find_separately = FALSE],
                   break |-> FALSE]
             ELSE LET q == IF p.pull[0].range.start = A.start
                           THEN [p EXCEPT !.pull[0].range.end =
                                              SizeT(p.pull[0].range.end - p.pull[1].count)]
                           ELSE p
                  IN  [l |-> [q EXCEPT !.buffer2 = Range_new(B.end - count, B.end)],
                       break |-> TRUE]
    ELSE IF l.pull_index = 0 /\ count > Range_length(l.buffer1)
    THEN [l |-> PULL([l EXCEPT !.buffer1 = Range_new(B.end - count, B.end)],
                     A, B, count, index, B.end),
          break |-> FALSE]
    ELSE [l |-> l, break |-> FALSE]

\* one pass of the loop of lines 981-1118; leaving it starts the loop of
\* line 1121 at pull_index = 0
ScanPair ==
    /\ pc = "scan"
    /\ ~WikiIterator_finished(iterator)
    /\ LET n1 == WikiIterator_nextRange(iterator)
           n2 == WikiIterator_nextRange(n1.me)
           A == n1.range
           B == n2.range
       IN  IF ~(NonEmpty(A) /\ NonEmpty(B))
           THEN Fault("scan ranges")
           ELSE LET ca == CountUniqueA(array, A, lv.find, A.start, 1)
                    fa == FoundInA(lv, A, B, ca.index, ca.count)
                    cb == CountUniqueB(array, B, fa.l.find, B.end - 1, 1)
                    fb == FoundInB(fa.l, A, B, cb.index, cb.count)
                    break == fa.break \/ fb.break
                    l == IF fa.break THEN fa.l ELSE fb.l
                IN  /\ iterator' = n2.me
                    /\ lv' = IF break THEN [l EXCEPT !.pull_index = 0] ELSE l
                    /\ pc' = IF break THEN "pull" ELSE "scan"
                    /\ UNCHANGED <<array, cache, mv, levelFixed>>

\* the scan ran over every pair
ScanEnd ==
    /\ pc = "scan"
    /\ WikiIterator_finished(iterator)
    /\ lv' = [lv EXCEPT !.pull_index = 0]
    /\ pc' = "pull"
    /\ UNCHANGED <<array, cache, iterator, mv, levelFixed>>

\* lines 1121-1129, 1138-1141: the next pull, or none when to = from
PullBegin ==
    /\ pc = "pull"
    /\ lv.pull_index < 2
    /\ LET p == lv.pull[lv.pull_index]
       IN  IF p.to < p.from
           THEN /\ lv' = [lv EXCEPT !.index = p.from, !.count = 1]
                /\ pc' = "pull left"
           ELSE IF p.to > p.from
           THEN /\ lv' = [lv EXCEPT !.index = p.from + 1, !.count = 1]
                /\ pc' = "pull right"
           ELSE /\ lv' = [lv EXCEPT !.pull_index = lv.pull_index + 1]
                /\ pc' = "pull"
    /\ UNCHANGED <<array, cache, iterator, mv, levelFixed>>

\* one pass of the loop of lines 1130-1136, or its end
PullLeft ==
    /\ pc = "pull left"
    /\ LET p == lv.pull[lv.pull_index]
           length == p.count
           search == Range_new(p.to, p.from - (lv.count - 1))
       IN  IF lv.count >= length
           THEN /\ lv' = [lv EXCEPT !.pull_index = lv.pull_index + 1]
                /\ pc' = "pull"
                /\ UNCHANGED <<array, cache, iterator, mv, levelFixed>>
           ELSE IF ~(InArray(lv.index - 1) /\ RangeOK(search))
           THEN Fault("pull left search")
           ELSE LET index == FindFirstBackward(array, array[lv.index - 1], search,
                                               length - lv.count)
                    range == Range_new(index + 1, p.from + 1)
                    amount == SizeT(Range_length(range) - lv.count)
                IN  IF ~RotateOK(amount, range)
                    THEN Fault("pull left Rotate")
                    ELSE LET r == Rotate(array, cache, amount, range, cache_size)
                         IN  /\ array' = r.a
                             /\ cache' = r.c
                             /\ lv' = [lv EXCEPT !.index = index,
                                                 !.count = lv.count + 1,
                                                 !.pull[lv.pull_index].from =
                                                     index + lv.count]
                             /\ UNCHANGED <<pc, iterator, mv, levelFixed>>

\* one pass of the loop of lines 1142-1148, or its end
PullRight ==
    /\ pc = "pull right"
    /\ LET p == lv.pull[lv.pull_index]
           length == p.count
           search == Range_new(lv.index, p.to)
       IN  IF lv.count >= length
           THEN /\ lv' = [lv EXCEPT !.pull_index = lv.pull_index + 1]
                /\ pc' = "pull"
                /\ UNCHANGED <<array, cache, iterator, mv, levelFixed>>
           ELSE IF ~(InArray(lv.index) /\ RangeOK(search))
           THEN Fault("pull right search")
           ELSE LET index == FindLastForward(array, array[lv.index], search,
                                             length - lv.count)
                    range == Range_new(p.from, index - 1)
                IN  IF ~RotateOK(lv.count, range)
                    THEN Fault("pull right Rotate")
                    ELSE LET r == Rotate(array, cache, lv.count, range, cache_size)
                         IN  /\ array' = r.a
                             /\ cache' = r.c
                             /\ lv' = [lv EXCEPT !.index = index,
                                                 !.count = lv.count + 1,
                                                 !.pull[lv.pull_index].from =
                                                     SizeT(index - 1 - lv.count)]
                             /\ UNCHANGED <<pc, iterator, mv, levelFixed>>

\* lines 1153-1161
PullEnd ==
    /\ pc = "pull"
    /\ lv.pull_index >= 2
    /\ IF Range_length(lv.buffer1) = 0
       THEN Fault("division by zero")
       ELSE /\ lv' = [lv EXCEPT !.buffer_size = Range_length(lv.buffer1),
                                !.block_size = WikiIterator_length(iterator)
                                                   \div Range_length(lv.buffer1) + 1]
            /\ iterator' = WikiIterator_begin(iterator)
            /\ pc' = "merge"
            /\ UNCHANGED <<array, cache, mv, levelFixed>>

(***************************************************************************)
(* The in-place path, steps 2-6: merge each A+B pair of the level.         *)
(***************************************************************************)
\* lines 1169-1216 left out: the pulled buffer stays in A or B
StripPullSkipped(r, p, start) == r

\* lines 1169-1191 and 1192-1210: take one pulled buffer off A or B; skip is
\* the `continue` of an A or B that the buffer used up
StripPull(r, p, start) ==
    IF r.skip \/ start # p.range.start THEN r
    ELSE IF p.from > p.to
    THEN LET A == Range_new(r.A.start + p.count, r.A.end)
         IN  [A |-> A, B |-> r.B, skip |-> Range_length(A) = 0]
    ELSE IF p.from < p.to
    THEN LET B == Range_new(r.B.start, SizeT(r.B.end - p.count))
         IN  [A |-> r.A, B |-> B, skip |-> Range_length(B) = 0]
    ELSE r

\* lines 1228-1231: swap the first item of each A block with an item of buffer1
RECURSIVE TagBlocks(_, _, _, _, _)
TagBlocks(a, indexA, index, end, block_size) ==
    IF index < end
    THEN TagBlocks(Swap(a, indexA, index), indexA + 1, index + block_size, end, block_size)
    ELSE a

\* the number of passes the loop of lines 1228-1231 makes
BlockCount(first, end, block_size) ==
    IF first < end THEN (end - first + block_size - 1) \div block_size ELSE 0

\* a faulty search that takes the first A block for the minimum
FindMinAFirstBlock(a, minA, findA, end, block_size) == minA

\* lines 1267-1274: the A block with the smallest tag
RECURSIVE FindMinA(_, _, _, _, _)
FindMinA(a, minA, findA, end, block_size) ==
    IF findA < end
    THEN FindMinA(a, IF Compare(a[findA], a[minA]) < 0 THEN findA ELSE minA,
                  findA + block_size, end, block_size)
    ELSE minA

\* lines 1285-1296 and 1367-1378: which merge the source picks for an A block
MergeKind(A) ==
    IF Range_length(A) <= cache_size THEN "external"
    ELSE IF Range_length(lv.buffer2) > 0 THEN "internal"
    ELSE "in place"

\* what that merge needs of its ranges
MergeOK(A, B) ==
    /\ RangeOK(A) /\ RangeOK(B) /\ A.end = B.start
    /\ MergeKind(A) = "internal" =>
           /\ InArray(lv.buffer2.start)
           /\ lv.buffer2.start + Range_length(A) <= len

\* the array after MergeExternal or MergeInternal; MergeInPlace runs pass by
\* pass from pc = "in place"
LocalMerge(a, A, B) ==
    CASE MergeKind(A) = "external" -> MergeExternal(a, cache, A, B)
      [] MergeKind(A) = "internal" -> MergeInternal(a, A, B, lv.buffer2)
      [] OTHER -> a

\* MergeInPlace(A, B) is entered: lines 566-569 return at once on an empty range
EntersInPlace(A, B) ==
    MergeKind(A) = "in place" /\ Range_length(A) # 0 /\ Range_length(B) # 0

\* one pass of the loop of lines 1162-1380, up to the loop of line 1254
MergePair ==
    /\ pc = "merge"
    /\ ~WikiIterator_finished(iterator)
    /\ LET n1 == WikiIterator_nextRange(iterator)
           n2 == WikiIterator_nextRange(n1.me)
           start == n1.range.start
           s0 == StripPull([A |-> n1.range, B |-> n2.range, skip |-> FALSE],
                           lv.pull[0], start)
           s == StripPull(s0, lv.pull[1], start)
           A == s.A
           B == s.B
       IN  IF s.skip
           THEN /\ iterator' = n2.me
                /\ UNCHANGED <<array, cache, pc, lv, mv, levelFixed>>
           ELSE IF ~(NonEmpty(A) /\ NonEmpty(B) /\ A.end = B.start)
           THEN Fault("merge ranges")
           ELSE IF Compare(array[B.end - 1], array[A.start]) < 0
           THEN LET r == Rotate(array, cache, Range_length(A),
                                Range_new(A.start, B.end), cache_size)
                IN  /\ iterator' = n2.me
                    /\ array' = r.a
                    /\ cache' = r.c
                    /\ UNCHANGED <<pc, lv, mv, levelFixed>>
           ELSE IF Compare(array[A.end], array[A.end - 1]) < 0
           THEN LET firstA == Range_new(A.start,
                                        A.start + (Range_length(A) % lv.block_size))
                    blocks == BlockCount(firstA.end, A.end, lv.block_size)
                    tagged == TagBlocks(array, lv.buffer1.start, firstA.end, A.end,
                                        lv.block_size)
                    lastA == firstA
                    blockB == Range_new(B.start,
                                        B.start + Min(lv.block_size, Range_length(B)))
                    blockA == Range_new(A.start + Range_length(firstA), A.end)
                    inCache == Range_length(lastA) <= cache_size
                    inBuffer2 == ~inCache /\ Range_length(lv.buffer2) > 0
                IN  IF ~(/\ blocks > 0 => InArray(lv.buffer1.start + blocks - 1)
                         /\ inBuffer2 => BlockSwapOK(lastA.start, lv.buffer2.start,
                                                     Range_length(lastA)))
                    THEN Fault("merge setup")
                    ELSE /\ iterator' = n2.me
                         /\ array' = IF inBuffer2
                                     THEN BlockSwap(tagged, lastA.start, lv.buffer2.start,
                                                    Range_length(lastA))
                                     ELSE tagged
                         /\ cache' = IF inCache
                                     THEN Copy(cache, 0, tagged, lastA.start,
                                               Range_length(lastA))
                                     ELSE cache
                         /\ mv' = [NoMerge EXCEPT !.A = A, !.B = B, !.blockA = blockA,
                                                  !.lastA = lastA, !.blockB = blockB,
                                                  !.indexA = lv.buffer1.start]
                         /\ pc' = IF Range_length(blockA) > 0 THEN "roll" ELSE "last"
                         /\ UNCHANGED <<lv, levelFixed>>
           ELSE /\ iterator' = n2.me
                /\ UNCHANGED <<array, cache, pc, lv, mv, levelFixed>>

\* lines 1258-1260: the minimum A block is dropped behind the previous B block
Drops ==
    \/ /\ Range_length(mv.lastB) > 0
       /\ Compare(array[mv.lastB.end - 1], array[mv.indexA]) >= 0
    \/ Range_length(mv.blockB) = 0

\* what a pass of the loop of line 1254 reads before it branches
RollOK ==
    /\ RangeOK(mv.lastB) /\ RangeOK(mv.blockA) /\ RangeOK(mv.blockB)
    /\ InArray(mv.indexA)

\* lines 1261-1296: drop the minimum A block and merge the previous one
RollDrop ==
    /\ pc = "roll"
    /\ IF ~RollOK THEN Fault("roll ranges")
       ELSE /\ Drops
            /\ LET B_split == BinaryFirst(array, array[mv.indexA], mv.lastB)
                   B_remaining == mv.lastB.end - B_split
                   minA == FindMinA(array, mv.blockA.start,
                                    mv.blockA.start + lv.block_size, mv.blockA.end,
                                    lv.block_size)
                   B == Range_new(mv.lastA.end, B_split)
               IN  IF ~(/\ BlockSwapOK(mv.blockA.start, minA, lv.block_size)
                        /\ MergeOK(mv.lastA, B))
                   THEN Fault("drop ranges")
                   ELSE LET a1 == BlockSwap(array, mv.blockA.start, minA, lv.block_size)
                            a2 == Swap(a1, mv.blockA.start, mv.indexA)
                        IN  /\ array' = LocalMerge(a2, mv.lastA, B)
                            /\ mv' = [mv EXCEPT
                                        !.indexA = mv.indexA + 1,
                                        !.B_split = B_split,
                                        !.B_remaining = B_remaining,
                                        !.mergeA = IF EntersInPlace(mv.lastA, B)
                                                   THEN mv.lastA ELSE Range_new(0, 0),
                                        !.mergeB = IF EntersInPlace(mv.lastA, B)
                                                   THEN B ELSE Range_new(0, 0),
                                        !.ret = "dropped"]
                            /\ pc' = IF EntersInPlace(mv.lastA, B) THEN "in place"
                                     ELSE "dropped"
                            /\ UNCHANGED <<cache, iterator, lv, levelFixed>>

\* lines 1298-1330: move the rest of the previous B block behind the A block
RollDropped ==
    /\ pc = "dropped"
    /\ LET start == mv.blockA.start
           block_size == lv.block_size
           viaCache == block_size <= cache_size
           viaBuffer2 == ~viaCache /\ Range_length(lv.buffer2) > 0
           to == start + block_size - mv.B_remaining
           amount == SizeT(start - mv.B_split)
           range == Range_new(mv.B_split, start + block_size)
           lastA == Range_new(start - mv.B_remaining, start - mv.B_remaining + block_size)
           blockA == Range_new(start + block_size, mv.blockA.end)
       IN  IF ~(/\ RangeOK(Range_new(start, start + block_size))
                /\ viaBuffer2 => BlockSwapOK(start, lv.buffer2.start, block_size)
                /\ (viaCache \/ viaBuffer2) =>
                       BlockSwapOK(mv.B_split, to, mv.B_remaining)
                /\ ~(viaCache \/ viaBuffer2) => RotateOK(amount, range))
           THEN Fault("dropped ranges")
           ELSE LET a1 == IF viaBuffer2
                          THEN BlockSwap(array, start, lv.buffer2.start, block_size)
                          ELSE array
                    r == Rotate(array, cache, amount, range, cache_size)
                IN  /\ array' = IF viaCache \/ viaBuffer2
                                THEN BlockSwap(a1, mv.B_split, to, mv.B_remaining)
                                ELSE r.a
                    /\ cache' = IF viaCache THEN Copy(cache, 0, array, start, block_size)
                                ELSE IF viaBuffer2 THEN cache
                                ELSE r.c
                    /\ mv' = [mv EXCEPT !.lastA = lastA,
                                        !.lastB = Range_new(lastA.end,
                                                            lastA.end + mv.B_remaining),
                                        !.blockA = blockA,
                                        !.B_split = 0, !.B_remaining = 0,
                                        !.ret = "none"]
                    /\ pc' = IF Range_length(blockA) = 0 THEN "last" ELSE "roll"
                    /\ UNCHANGED <<iterator, lv, levelFixed>>

\* lines 1333-1343: the last, shorter B block is rotated before the A blocks
RollTail ==
    /\ pc = "roll"
    /\ RollOK
    /\ ~Drops
    /\ Range_length(mv.blockB) < lv.block_size
    /\ LET amount == SizeT(mv.blockB.start - mv.blockA.start)
           range == Range_new(mv.blockA.start, mv.blockB.end)
           n == Range_length(mv.blockB)
       IN  IF ~RotateOK(amount, range)
           THEN Fault("tail Rotate")
           ELSE /\ array' = Rotate(array, cache, amount, range, 0).a
                /\ mv' = [mv EXCEPT
                            !.lastB = Range_new(mv.blockA.start, mv.blockA.start + n),
                            !.blockA = Range_new(mv.blockA.start + n, mv.blockA.end + n),
                            !.blockB = Range_new(mv.blockB.start, mv.blockB.start)]
                /\ UNCHANGED <<pc, cache, iterator, lv, levelFixed>>

\* lines 1344-1362: the leftmost A block is swapped with the next B block
RollSwap ==
    /\ pc = "roll"
    /\ RollOK
    /\ ~Drops
    /\ Range_length(mv.blockB) >= lv.block_size
    /\ LET block_size == lv.block_size
       IN  IF ~BlockSwapOK(mv.blockA.start, mv.blockB.start, block_size)
           THEN Fault("roll BlockSwap")
           ELSE /\ array' = BlockSwap(array, mv.blockA.start, mv.blockB.start, block_size)
                /\ mv' = [mv EXCEPT
                            !.lastB = Range_new(mv.blockA.start,
                                                mv.blockA.start + block_size),
                            !.blockA = Range_new(mv.blockA.start + block_size,
                                                 mv.blockA.end + block_size),
                            !.blockB =
                                Range_new(mv.blockB.start + block_size,
                                          IF mv.blockB.end > SizeT(mv.B.end - block_size)
                                          THEN mv.B.end
                                          ELSE mv.blockB.end + block_size)]
                /\ UNCHANGED <<pc, cache, iterator, lv, levelFixed>>

\* lines 1366-1378: merge the last A block with the rest of B
MergeLast ==
    /\ pc = "last"
    /\ LET B == Range_new(mv.lastA.end, mv.B.end)
       IN  IF ~MergeOK(mv.lastA, B)
           THEN Fault("last merge ranges")
           ELSE /\ array' = LocalMerge(array, mv.lastA, B)
                /\ mv' = IF EntersInPlace(mv.lastA, B)
                         THEN [NoMerge EXCEPT !.mergeA = mv.lastA, !.mergeB = B,
                                              !.ret = "merge"]
                         ELSE NoMerge
                /\ pc' = IF EntersInPlace(mv.lastA, B) THEN "in place" ELSE "merge"
                /\ UNCHANGED <<cache, iterator, lv, levelFixed>>

\* one pass of the loop of lines 589-610, returning to the caller at a break
MergeInPlace ==
    /\ pc = "in place"
    /\ IF ~(NonEmpty(mv.mergeA) /\ NonEmpty(mv.mergeB) /\ mv.mergeA.end = mv.mergeB.start)
       THEN Fault("MergeInPlace ranges")
       ELSE LET p == MergeInPlacePass(array, cache, mv.mergeA, mv.mergeB, cache_size)
            IN  /\ array' = p.a
                /\ cache' = p.c
                /\ mv' = IF ~p.done THEN [mv EXCEPT !.mergeA = p.A, !.mergeB = p.B]
                         ELSE IF mv.ret = "merge" THEN NoMerge
                         ELSE [mv EXCEPT !.mergeA = Range_new(0, 0),
                                         !.mergeB = Range_new(0, 0)]
                /\ pc' = IF p.done THEN mv.ret ELSE pc
                /\ UNCHANGED <<iterator, lv, levelFixed>>

\* the loop of line 1162 ends
MergeEnd ==
    /\ pc = "merge"
    /\ WikiIterator_finished(iterator)
    /\ pc' = "insertion"
    /\ UNCHANGED <<array, cache, iterator, lv, mv, levelFixed>>

(***************************************************************************)
(* The in-place path, steps 7-8: sort buffer2, redistribute the buffers.   *)
(***************************************************************************)
\* line 1387, and the loop of line 1389 starts at pull_index = 0
InsertionSortBuffer2 ==
    /\ pc = "insertion"
    /\ IF ~RangeOK(lv.buffer2)
       THEN Fault("buffer2 range")
       ELSE /\ array' = InsertionSort(array, lv.buffer2)
            /\ lv' = [lv EXCEPT !.pull_index = 0]
            /\ pc' = "redistribute"
            /\ UNCHANGED <<cache, iterator, mv, levelFixed>>

\* a faulty RedistributeBegin whose estimate is count, not count * 2
RedistributeBeginCountOnce ==
    /\ pc = "redistribute"
    /\ lv.pull_index < 2
    /\ LET p == lv.pull[lv.pull_index]
       IN  IF p.from > p.to
           THEN /\ lv' = [lv EXCEPT !.unique = p.count,
                                    !.buffer = Range_new(p.range.start,
                                                         p.range.start + p.count)]
                /\ pc' = "redistribute right"
           ELSE IF p.from < p.to
           THEN /\ lv' = [lv EXCEPT !.unique = p.count,
                                    !.buffer = Range_new(SizeT(p.range.end - p.count),
                                                         p.range.end)]
                /\ pc' = "redistribute left"
           ELSE /\ lv' = [lv EXCEPT !.pull_index = lv.pull_index + 1]
                /\ pc' = "redistribute"
    /\ UNCHANGED <<array, cache, iterator, mv, levelFixed>>

\* lines 1391-1395, 1406-1409: the next buffer to give back, or none
RedistributeBegin ==
    /\ pc = "redistribute"
    /\ lv.pull_index < 2
    /\ LET p == lv.pull[lv.pull_index]
       IN  IF p.from > p.to
           THEN /\ lv' = [lv EXCEPT !.unique = p.count * 2,
                                    !.buffer = Range_new(p.range.start,
                                                         p.range.start + p.count)]
                /\ pc' = "redistribute right"
           ELSE IF p.from < p.to
           THEN /\ lv' = [lv EXCEPT !.unique = p.count * 2,
                                    !.buffer = Range_new(SizeT(p.range.end - p.count),
                                                         p.range.end)]
                /\ pc' = "redistribute left"
           ELSE /\ lv' = [lv EXCEPT !.pull_index = lv.pull_index + 1]
                /\ pc' = "redistribute"
    /\ UNCHANGED <<array, cache, iterator, mv, levelFixed>>

\* one pass of the loop of lines 1396-1404, or its end
RedistributeRight ==
    /\ pc = "redistribute right"
    /\ LET p == lv.pull[lv.pull_index]
           buffer == lv.buffer
           search == Range_new(buffer.end, p.range.end)
       IN  IF Range_length(buffer) = 0
           THEN /\ lv' = [lv EXCEPT !.pull_index = lv.pull_index + 1,
                                    !.buffer = Range_new(0, 0), !.unique = 0,
                                    !.index = 0]
                /\ pc' = "redistribute"
                /\ UNCHANGED <<array, cache, iterator, mv, levelFixed>>
           ELSE IF ~(/\ RangeOK(buffer) /\ RangeOK(search)
                     /\ Range_length(search) > 0 => lv.unique > 0)
           THEN Fault("redistribute right search")
           ELSE LET index == FindFirstForward(array, array[buffer.start], search,
                                              lv.unique)
                    amount == index - buffer.end
                    range == Range_new(buffer.start, index)
                IN  IF ~RotateOK(Range_length(buffer), range)
                    THEN Fault("redistribute right Rotate")
                    ELSE LET r == Rotate(array, cache, Range_length(buffer), range,
                                         cache_size)
                         IN  /\ array' = r.a
                             /\ cache' = r.c
                             /\ lv' = [lv EXCEPT
                                         !.index = index,
                                         !.buffer = Range_new(buffer.start + amount + 1,
                                                              buffer.end + amount),
                                         !.unique = SizeT(lv.unique - 2)]
                             /\ UNCHANGED <<pc, iterator, mv, levelFixed>>

\* one pass of the loop of lines 1410-1418, or its end
RedistributeLeft ==
    /\ pc = "redistribute left"
    /\ LET p == lv.pull[lv.pull_index]
           buffer == lv.buffer
           search == Range_new(p.range.start, buffer.start)
       IN  IF Range_length(buffer) = 0
           THEN /\ lv' = [lv EXCEPT !.pull_index = lv.pull_index + 1,
                                    !.buffer = Range_new(0, 0), !.unique = 0,
                                    !.index = 0]
                /\ pc' = "redistribute"
                /\ UNCHANGED <<array, cache, iterator, mv, levelFixed>>
           ELSE IF ~(/\ RangeOK(buffer) /\ RangeOK(search)
                     /\ Range_length(search) > 0 => lv.unique > 0)
           THEN Fault("redistribute left search")
           ELSE LET index == FindLastBackward(array, array[buffer.end - 1], search,
                                              lv.unique)
                    amount == buffer.start - index
                    range == Range_new(index, buffer.end)
                IN  IF ~RotateOK(amount, range)
                    THEN Fault("redistribute left Rotate")
                    ELSE LET r == Rotate(array, cache, amount, range, cache_size)
                         IN  /\ array' = r.a
                             /\ cache' = r.c
                             /\ lv' = [lv EXCEPT
                                         !.index = index,
                                         !.buffer = Range_new(buffer.start - amount,
                                                              buffer.end - (amount + 1)),
                                         !.unique = SizeT(lv.unique - 2)]
                             /\ UNCHANGED <<pc, iterator, mv, levelFixed>>

\* the loop of line 1389 ends, and with it the level
RedistributeEnd ==
    /\ pc = "redistribute"
    /\ lv.pull_index >= 2
    /\ lv' = NoLevel
    /\ pc' = "nextLevel"
    /\ UNCHANGED <<array, cache, iterator, mv, levelFixed>>

\* lines 1424-1427
NextLevel ==
    /\ pc = "nextLevel"
    /\ LET n == WikiIterator_nextLevel(iterator)
       IN  /\ iterator' = n.me
           /\ pc' = IF n.more THEN "level" ELSE "done"
    /\ UNCHANGED <<array, cache, lv, mv, levelFixed>>

Next ==
    \/ WikiSort
    \/ SortSmall
    \/ BaseBegin
    \/ BaseRange
    \/ BaseEnd
    \/ StaticCache
    \/ DynamicCache
    \/ LevelFourWay
    \/ LevelTwoWay
    \/ LevelInPlace
    \/ FourWayMerge
    \/ FourWayEnd
    \/ TwoWayMerge
    \/ TwoWayEnd
    \/ ScanPair
    \/ ScanEnd
    \/ PullBegin
    \/ PullLeft
    \/ PullRight
    \/ PullEnd
    \/ MergePair
    \/ RollDrop
    \/ RollDropped
    \/ RollTail
    \/ RollSwap
    \/ MergeLast
    \/ MergeInPlace
    \/ MergeEnd
    \/ InsertionSortBuffer2
    \/ RedistributeBegin
    \/ RedistributeRight
    \/ RedistributeLeft
    \/ RedistributeEnd
    \/ NextLevel

Spec == Init /\ [][Next]_vars

(***************************************************************************)
(* Termination is a liveness property: FairSpec adds weak fairness of      *)
(* Next, the processor going on with the program for as long as it has not *)
(* returned.  WF_vars(Next) is []<>~ENABLED <<Next>>_vars \/               *)
(* []<><<Next>>_vars; Next is enabled in exactly the Running states (no    *)
(* other state of Spec is without a successor), which is how the first     *)
(* disjunct is written.                                                    *)
(***************************************************************************)
Running == pc \notin {"done", "fault"}

Fairness == []<>(~Running) \/ []<><<Next>>_vars

FairSpec == Spec /\ Fairness

(***************************************************************************)
(* new_compare on its own: one call on two size_t values, each of four     *)
(* limbs.                                                                  *)
(***************************************************************************)
CompareValues == [1..4 -> {0, 1, HalfLimb, Limb - 1}]

CompareInit ==
    /\ \E a, b \in CompareValues : item1 = a /\ item2 = b
    /\ result = 0
    /\ pc = "new_compare"
    /\ input = << >>
    /\ array = << >>
    /\ len = 0
    /\ size_arg = SizeofTest
    /\ size = SizeofTest
    /\ compare = "new_compare"
    /\ cache = << >>
    /\ cache_size = 0
    /\ cache_null = TRUE
    /\ iterator = NoIterator
    /\ lv = NoLevel
    /\ mv = NoMerge
    /\ mallocs = << >>
    /\ fault = "none"

\* return (_item1->value - _item2->value);
CallNewCompare ==
    /\ pc = "new_compare"
    /\ result' = new_compare(item1, item2)
    /\ pc' = "compared"
    /\ UNCHANGED <<array, cache, iterator, lv, mv, policyVars, fault, callVars,
                   item1, item2>>

CompareNext == CallNewCompare

CompareSpec == CompareInit /\ [][CompareNext]_vars

\* a < b as size_t values
SizeTLess(a, b) ==
    \E k \in 1..4 : a[k] < b[k] /\ \A j \in (k + 1)..4 : a[j] = b[j]

(***************************************************************************)
(* Properties.                                                             *)
(***************************************************************************)
\* the call the properties of a sort are about: a total order, and the
\* element width the array has
TotalOrderCall == compare \in TotalOrders /\ size_arg = SizeofTest

Returned == pc = "done"

Items(a) == {a[i] : i \in DOMAIN a}

\* C1: under a total-order comparator the array WikiSort returns is in
\* non-decreasing order: compare(A[i], A[j]) <= 0 for all i < j.
C1_Ordered ==
    (Returned /\ TotalOrderCall) =>
        \A i, j \in 0..(len - 1) : i < j => Compare(array[i], array[j]) <= 0

\* a returned sort of the longest input that the in-place path had to reorder
C1_OrderedWitness ==
    /\ Returned /\ TotalOrderCall
    /\ len = MaxLen /\ cache_size = 0 /\ array # input

\* C2: WikiSort is stable: items that compare equal are returned in the
\* order of their original indices.
C2_Stable ==
    (Returned /\ TotalOrderCall) =>
        \A i, j \in 0..(len - 1) :
            (i < j /\ Compare(array[i], array[j]) = 0) =>
                array[i].index < array[j].index

\* a returned sort that moved items and has equal items that were apart
C2_StableWitness ==
    /\ Returned /\ TotalOrderCall
    /\ len >= 2 * MinLevel /\ array # input
    /\ \E i \in 0..(len - 2) :
          /\ Compare(array[i], array[i + 1]) = 0
          /\ array[i + 1].index > array[i].index + 1

\* C3: the array holds the items of the input, each once (the items of an
\* input differ in their index), in every state: after every swap, block
\* swap, rotation, merge, pull and redistribution, whatever the comparator.
C3_Permutation ==
    /\ DOMAIN array = DOMAIN input
    /\ Items(array) = Items(input)

\* in the middle of a level: the buffers are pulled out, blocks are rolling
C3_PermutationWitness ==
    /\ pc = "roll" /\ array # input
    /\ lv.pull[0].count > 0
    /\ Items(array) = Items(input)

C5_Terminates == TotalOrderCall => <>Returned

\* a sort of the longest input returned after levels merged in place
C5_TerminatesWitness ==
    /\ Returned /\ TotalOrderCall
    /\ len = MaxLen /\ cache_size = 0 /\ mallocs = << >>
    /\ iterator.decimal_step >= len

\* C6: for any comparator, every index the sort reads or writes is in
\* [0, N) and every Rotate has 0 <= amount <= length of its range.
C6_InBounds == size_arg = SizeofTest => fault = "none"

\* C7: WikiSort works with the element width it is given: new_WikiSort's
\* size is the size argument.
C7_WidthUsed == pc # "WikiSort" => size = size_arg

\* the lengths at which the dynamic policy's second size reaches FixedCache
LargeLens == {1023 * FixedCache - 2, 1024 * FixedCache - 2, 1024 * FixedCache - 1,
              4096 * FixedCache}

\* what the policy has to give for len n: the calls are (n + 1) / 2, then
\* sqrt of that + 1, then FixedCache; every call but the last failed; the
\* cache is the last call's block, or NULL with cache_size 0 if that failed
PolicyHolds(p, n) ==
    LET calls == p.mallocs
        last == Len(calls)
    IN  /\ last \in 1..3
        /\ \A k \in 1..(last - 1) : ~calls[k].ok
        /\ calls[1].count = (n + 1) \div 2
        /\ last >= 2 => calls[2].count = Sqrt(calls[1].count) + 1
        /\ last = 3 => calls[3].count = FixedCache /\ calls[2].count > FixedCache
        /\ p.cache_null = ~calls[last].ok
        /\ p.cache_null => p.cache_size = 0
        /\ ~p.cache_null => p.cache_size = calls[last].count

\* C8: under the dynamic cache policy, whichever allocations fail, the sort
\* goes on with the first size that was allocated, or with cache_size = 0
\* and no cache when all failed, never with a NULL cache and cache_size > 0,
\* and returns the array stably sorted.
C8_CachePolicy ==
    /\ pc = "cache" =>
          \A n \in LargeLens \cup {len}, ok \in [1..3 -> BOOLEAN] :
              PolicyHolds(DynamicCachePolicy(n, ok), n)
    /\ mallocs # << >> =>
          /\ PolicyHolds([cache_size |-> cache_size, cache_null |-> cache_null,
                          mallocs |-> mallocs], len)
          /\ cache_null => cache_size = 0
          /\ TotalOrderCall => pc # "fault"
          /\ (Returned /\ TotalOrderCall) => WikiVerify(array, Range_new(0, len))

\* returned stably sorted after both allocations failed
C8_CachePolicyWitness ==
    /\ Returned /\ TotalOrderCall
    /\ Len(mallocs) = 2 /\ ~mallocs[1].ok /\ ~mallocs[2].ok
    /\ cache_null /\ cache_size = 0
    /\ array # input
    /\ WikiVerify(array, Range_new(0, len))

\* C9: new_compare is the order of the size_t values: its result is
\* negative iff a < b, zero iff a = b, positive iff a > b.
C9_TotalOrder ==
    pc = "compared" =>
        /\ (result < 0) = SizeTLess(item1, item2)
        /\ (result = 0) = (item1 = item2)
        /\ (result > 0) = SizeTLess(item2, item1)

(***************************************************************************)
(* The levels and the iterator.                                            *)
(***************************************************************************)
\* the iterator run from WikiIterator_begin until WikiIterator_finished:
\* the ranges WikiIterator_nextRange returned, and the iterator at the end
LevelWalk(me) ==
    LET Unfinished(s) == ~WikiIterator_finished(s.me)
        NextRange(s) ==
            LET n == WikiIterator_nextRange(s.me)
            IN  [me |-> n.me, runs |-> Append(s.runs, n.range)]
    IN  While(Unfinished, NextRange,
              [me |-> WikiIterator_begin(me), runs |-> << >>], me.size)

\* C11: after the base pass (pc = "cache"), at the top of every pass of the
\* level loop (pc = "level") and at the return, every run of the iterator's
\* level is sorted, equal items in the order of the input; the buffers of
\* the level before have been redistributed by then.
C11_LevelSorted ==
    (pc \in {"cache", "level", "done"} /\ TotalOrderCall) =>
        \A k \in 1..Len(LevelWalk(iterator).runs) :
            /\ RangeOK(LevelWalk(iterator).runs[k])
            /\ WikiVerify(array, LevelWalk(iterator).runs[k])

\* at the top of the level loop after a level that was merged in place
C11_LevelSortedWitness ==
    /\ pc = "level" /\ TotalOrderCall
    /\ cache_size = 0 /\ array # input
    /\ iterator.decimal_step >= 2 * MinLevel
    /\ Len(LevelWalk(iterator).runs) >= 2
    /\ \A k \in 1..Len(LevelWalk(iterator).runs) : WikiVerify(array, LevelWalk(iterator).runs[k])

\* C12: from WikiIterator_begin on, the ranges of WikiIterator_nextRange are
\* contiguous from 0, each of length decimal_step or decimal_step + 1, and
\* the iterator is finished exactly at decimal = N: the runs add up to N.
C12_IteratorTiles ==
    iterator # NoIterator =>
        LET w == LevelWalk(iterator)
            n == Len(w.runs)
        IN  /\ n >= 1
            /\ w.runs[1].start = 0
            /\ \A k \in 1..(n - 1) : w.runs[k + 1].start = w.runs[k].end
            /\ \A k \in 1..n :
                  /\ Range_length(w.runs[k]) \in
                        {iterator.decimal_step, iterator.decimal_step + 1}
                  /\ w.runs[k].end <= iterator.size
                  /\ k < n => w.runs[k].end < iterator.size
            /\ WikiIterator_finished(w.me)
            /\ w.me.decimal = iterator.size
            /\ iterator.size = len

\* a level whose runs are of both lengths
C12_IteratorTilesWitness ==
    /\ pc = "level" /\ iterator.numerator_step > 0
    /\ Len(LevelWalk(iterator).runs) >= 4
    /\ \E j, k \in 1..Len(LevelWalk(iterator).runs) :
          /\ Range_length(LevelWalk(iterator).runs[j]) = iterator.decimal_step
          /\ Range_length(LevelWalk(iterator).runs[k]) = iterator.decimal_step + 1
    /\ LevelWalk(iterator).me.decimal = len

\* C13: for N >= 4 every range of the base pass has a length from 4 to 8,
\* so each gets one of the five sorting networks.
C13_BaseLengths ==
    pc = "base" =>
        /\ len >= MinLevel
        /\ \A k \in 1..Len(LevelWalk(iterator).runs) :
              /\ Range_length(LevelWalk(iterator).runs[k]) \in MinLevel..(2 * MinLevel)
              /\ Network(Range_length(LevelWalk(iterator).runs[k])) # << >>

\* a base pass with ranges of 7 and of 8 items, all of them sorted
C13_BaseLengthsWitness ==
    /\ pc = "base" /\ WikiIterator_finished(iterator) /\ TotalOrderCall
    /\ \E j, k \in 1..Len(LevelWalk(iterator).runs) :
          /\ Range_length(LevelWalk(iterator).runs[j]) = 2 * MinLevel
          /\ Range_length(LevelWalk(iterator).runs[k]) = 2 * MinLevel - 1
    /\ \A k \in 1..Len(LevelWalk(iterator).runs) : WikiVerify(array, LevelWalk(iterator).runs[k])
    /\ array # input

(***************************************************************************)
(* The toolbox functions, each called on its own: the base pass's sorting  *)
(* network on one range, the searches, Rotate and the merges.  `lv` holds  *)
(* the arguments of the call and `mv` what it returned.                    *)
(***************************************************************************)
\* a call named `what` about to be made on the array a and the cache c
ToolCall(what, a, c, args, merge) ==
    /\ pc = what
    /\ input = a
    /\ array = a
    /\ len = Cardinality(DOMAIN a)
    /\ cache = c
    /\ cache_size = Cardinality(DOMAIN c)
    /\ cache_null = (c = << >>)
    /\ lv = args
    /\ mv = merge
    /\ size_arg = SizeofTest
    /\ size = SizeofTest
    /\ compare = "new_compare"
    /\ iterator = NoIterator
    /\ mallocs = << >>
    /\ fault = "none"
    /\ item1 = Limbs(0)
    /\ item2 = Limbs(0)
    /\ result = 0

toolFixed == <<len, size, size_arg, compare, input, cache_size, cache_null,
               iterator, mallocs, fault, item1, item2, result>>

\* the ascending value sequences of n items over 0..MaxToolVal
SortedValues(n) ==
    {f \in [0..(n - 1) -> 0..MaxToolVal] : \A i \in 1..(n - 1) : f[i - 1] <= f[i]}

\* a range of the base pass: MinLevel to 2 * MinLevel items of any values,
\* with an item of value 1 before it and one after it; order[] as line 671
\* sets it
NetworkCalls ==
    \E n \in MinLevel..(2 * MinLevel) : \E f \in [1..n -> 0..MaxToolVal] :
        ToolCall("network",
                 MakeArray(n + 2, [i \in 0..(n + 1) |->
                                      IF i \in 1..n THEN f[i] ELSE 1]),
                 << >>,
                 [range |-> Range_new(1, n + 1), order |-> [i \in 0..7 |-> i],
                  pairs |-> Network(n), k |-> 1],
                 NoMerge)

\* the next NEW_SWAP of the range's network
NetworkStep ==
    /\ pc = "network"
    /\ lv.k <= Len(lv.pairs)
    /\ LET n == NEW_SWAP([a |-> array, order |-> lv.order], lv.range.start,
                         lv.pairs[lv.k][1], lv.pairs[lv.k][2])
       IN  /\ array' = n.a
           /\ lv' = [lv EXCEPT !.order = n.order, !.k = lv.k + 1]
    /\ UNCHANGED <<pc, cache, mv, toolFixed>>

\* a search for `value` in a sorted range: the array of the model is the
\* range alone, so that a read outside of it has no value
SearchCalls ==
    \E n \in 0..MaxRangeLen, start \in 0..2, v \in 0..MaxToolVal,
       unique \in 1..(MaxRangeLen + 1) :
        \E f \in SortedValues(n) :
            ToolCall("search",
                     [i \in start..(start + n - 1) |-> Item(f[i - start], i)],
                     << >>,
                     [range |-> Range_new(start, start + n),
                      value |-> Item(v, start + n), unique |-> unique],
                     NoMerge)

Searched(what, index) ==
    /\ pc = "search"
    /\ pc' = what
    /\ mv' = [index |-> index]
    /\ UNCHANGED <<array, cache, lv, toolFixed>>

CallBinaryFirst == Searched("BinaryFirst", BinaryFirst(array, lv.value, lv.range))

CallBinaryLast == Searched("BinaryLast", BinaryLast(array, lv.value, lv.range))

CallFindFirstForward ==
    Searched("FindFirstForward", FindFirstForward(array, lv.value, lv.range, lv.unique))

CallFindLastForward ==
    Searched("FindLastForward", FindLastForward(array, lv.value, lv.range, lv.unique))

CallFindFirstBackward ==
    Searched("FindFirstBackward", FindFirstBackward(array, lv.value, lv.range, lv.unique))

CallFindLastBackward ==
    Searched("FindLastBackward", FindLastBackward(array, lv.value, lv.range, lv.unique))

\* Rotate(array, amount, range, cache, cache_size) on distinct items: any
\* range of the array, any amount up to its length, any cache size
RotateCalls ==
    \E start \in 0..MaxRangeLen, end \in 0..MaxRangeLen, amount \in 0..MaxRangeLen,
       cs \in 0..MaxRangeLen :
        /\ start <= end
        /\ amount <= end - start
        /\ ToolCall("Rotate",
                    MakeArray(MaxRangeLen, [i \in 0..(MaxRangeLen - 1) |-> i % (MaxToolVal + 1)]),
                    NewCache(cs),
                    [range |-> Range_new(start, end), amount |-> amount],
                    NoMerge)

CallRotate ==
    /\ pc = "Rotate"
    /\ LET r == Rotate(array, cache, lv.amount, lv.range, cache_size)
       IN  array' = r.a /\ cache' = r.c
    /\ pc' = "Rotate returned"
    /\ UNCHANGED <<lv, mv, toolFixed>>

\* the calls of the four merges on two adjacent sorted runs A and B; the
\* array has an item of value 1 before them, another one after them, and
\* then a buffer of |A| + 1 such items.  MergeInto merges from the array
\* into the cache, MergeExternal has A copied to the cache (line 1240),
\* MergeInternal has A block-swapped into the buffer (line 1244),
\* MergeInPlace has a cache of 0 to 2 items
MergeCalls ==
    \E nA \in 0..MaxRunLen, nB \in 0..MaxRunLen, cs \in 0..2 :
        \E fA \in SortedValues(nA), fB \in SortedValues(nB) :
            LET a == MakeArray(2 * nA + nB + 3,
                               [i \in 0..(2 * nA + nB + 2) |->
                                   IF i \in 1..nA THEN fA[i - 1]
                                   ELSE IF i \in (nA + 1)..(nA + nB) THEN fB[i - nA - 1]
                                   ELSE 1])
                A == Range_new(1, nA + 1)
                B == Range_new(nA + 1, nA + nB + 1)
                buffer == Range_new(B.end + 1, B.end + nA + 2)
                args == [A |-> A, B |-> B, buffer |-> buffer]
            IN  \/ /\ nA > 0 /\ nB > 0 /\ cs = 0
                   /\ ToolCall("MergeInto", a, NewCache(nA + nB), args, NoMerge)
                \/ /\ cs = 0
                   /\ ToolCall("MergeExternal", a,
                               Copy(NewCache(nA + 1), 0, a, A.start, nA), args, NoMerge)
                \/ /\ cs = 0
                   /\ ToolCall("MergeInternal",
                               BlockSwap(a, A.start, buffer.start, nA), << >>, args,
                               NoMerge)
                \/ /\ nA > 0 /\ nB > 0
                   /\ ToolCall("in place", a, NewCache(cs), args,
                               [NoMerge EXCEPT !.mergeA = A, !.mergeB = B,
                                               !.ret = "MergeInPlace returned"])

CallMergeInto ==
    /\ pc = "MergeInto"
    /\ cache' = MergeInto(array, lv.A, lv.B, cache, 0)
    /\ pc' = "MergeInto returned"
    /\ UNCHANGED <<array, lv, mv, toolFixed>>

CallMergeExternal ==
    /\ pc = "MergeExternal"
    /\ array' = MergeExternal(array, cache, lv.A, lv.B)
    /\ pc' = "MergeExternal returned"
    /\ UNCHANGED <<cache, lv, mv, toolFixed>>

CallMergeInternal ==
    /\ pc = "MergeInternal"
    /\ array' = MergeInternal(array, lv.A, lv.B, lv.buffer)
    /\ pc' = "MergeInternal returned"
    /\ UNCHANGED <<cache, lv, mv, toolFixed>>

ToolInit ==
    \/ NetworkCalls
    \/ SearchCalls
    \/ RotateCalls
    \/ MergeCalls

ToolNext ==
    \/ NetworkStep
    \/ CallBinaryFirst
    \/ CallBinaryLast
    \/ CallFindFirstForward
    \/ CallFindLastForward
    \/ CallFindFirstBackward
    \/ CallFindLastBackward
    \/ CallRotate
    \/ CallMergeInto
    \/ CallMergeExternal
    \/ CallMergeInternal
    \/ MergeInPlace

ToolSpec == ToolInit /\ [][ToolNext]_vars

\* C14: for each length 4..8 and every input, after every NEW_SWAP order[]
\* is a permutation of the range's positions and position i holds the item
\* that was at order[i]; after the last one the range is sorted, equal
\* items in their original order, and the items around it are untouched.
C14_NetworkSorts ==
    pc = "network" =>
        LET n == Range_length(lv.range)
            start == lv.range.start
        IN  /\ {lv.order[i] : i \in 0..(n - 1)} = 0..(n - 1)
            /\ \A i \in 0..7 : i >= n => lv.order[i] = i
            /\ \A i \in 0..(n - 1) : array[start + i] = input[start + lv.order[i]]
            /\ \A i \in DOMAIN array :
                  (i < start \/ i >= lv.range.end) => array[i] = input[i]
            /\ lv.k > Len(lv.pairs) => WikiVerify(array, lv.range)

\* a network of 8 that is through, on equal and unequal items it had to move
C14_NetworkSortsWitness ==
    /\ pc = "network" /\ Range_length(lv.range) = 8
    /\ lv.k > Len(lv.pairs)
    /\ array # input
    /\ \E i \in 1..7 : array[i].value = array[i + 1].value
    /\ \E i \in 1..7 : array[i].value < array[i + 1].value
    /\ WikiVerify(array, lv.range)

\* C15: on a sorted range BinaryFirst returns the first index whose item is
\* >= value and BinaryLast the first index whose item is > value, the end of
\* the range if there is none; on an empty range they return its start,
\* which is its end, and read nothing.
C15_BinarySearch ==
    LET FirstIndex(range, Test(_)) ==
            IF \E i \in range.start..(range.end - 1) : Test(i)
            THEN CHOOSE i \in range.start..(range.end - 1) :
                     Test(i) /\ \A j \in range.start..(i - 1) : ~Test(j)
            ELSE range.end
        AtLeast(i) == array[i].value >= lv.value.value
        Above(i) == array[i].value > lv.value.value
    IN  /\ pc = "BinaryFirst" => mv.index = FirstIndex(lv.range, AtLeast)
        /\ pc = "BinaryLast" => mv.index = FirstIndex(lv.range, Above)
        /\ (pc \in {"BinaryFirst", "BinaryLast"} /\ Range_length(lv.range) = 0) =>
              mv.index = lv.range.start /\ mv.index = lv.range.end

\* BinaryFirst found the first of several items equal to value
C15_BinarySearchWitness ==
    /\ pc = "BinaryFirst"
    /\ Range_length(lv.range) >= 5
    /\ mv.index > lv.range.start /\ mv.index + 1 < lv.range.end
    /\ array[mv.index].value = lv.value.value
    /\ array[mv.index + 1].value = lv.value.value
    /\ array[mv.index - 1].value < lv.value.value

\* C16: on every sorted range, for every value and every unique >= 1, the
\* four Find functions return what the binary searches return, reading
\* items of the range only.
C16_FindAgrees ==
    /\ pc \in {"FindFirstForward", "FindFirstBackward"} =>
          mv.index = BinaryFirst(array, lv.value, lv.range)
    /\ pc \in {"FindLastForward", "FindLastBackward"} =>
          mv.index = BinaryLast(array, lv.value, lv.range)
    /\ pc \in {"FindFirstForward", "FindFirstBackward",
               "FindLastForward", "FindLastBackward"} =>
          DOMAIN array = lv.range.start..(lv.range.end - 1)

\* a backward search that stepped several times before its binary search
C16_FindAgreesWitness ==
    /\ pc = "FindLastBackward"
    /\ Range_length(lv.range) = MaxRangeLen
    /\ lv.unique = 4
    /\ mv.index = lv.range.start + 3
    /\ mv.index = BinaryLast(array, lv.value, lv.range)

\* C17: Rotate leaves at range.start + i the item that was at
\* range.start + ((i + amount) mod length) and every item outside the range
\* where it was, whether it copied through the cache or reversed.
C17_RotateLeft ==
    pc = "Rotate returned" =>
        LET n == Range_length(lv.range)
        IN  /\ \A i \in 0..(n - 1) :
                  array[lv.range.start + i] =
                      input[lv.range.start + ((i + lv.amount) % n)]
            /\ \A i \in DOMAIN array :
                  (i < lv.range.start \/ i >= lv.range.end) => array[i] = input[i]
            /\ DOMAIN array = DOMAIN input
            /\ array = Rotate(input, << >>, lv.amount, lv.range, 0).a

\* a rotation whose shorter side went through the cache
C17_RotateLeftWitness ==
    /\ pc = "Rotate returned"
    /\ Range_length(lv.range) >= 5
    /\ lv.amount = 2 /\ cache_size = 2
    /\ \A i \in 0..1 : cache[i] = input[lv.range.start + i]
    /\ array[lv.range.end - 1] = input[lv.range.start + 1]

\* C18: MergeInto, MergeExternal, MergeInternal and MergeInPlace each leave
\* the sorted merge of the adjacent sorted runs A and B, A's item before B's
\* where they are equal and each run's equal items in their order.
C18_MergesStable ==
    LET n == Range_length(lv.A) + Range_length(lv.B)
        \* the n items from `at` on are those of A and B, in order, equal
        \* items by ascending index: A's before B's, each run's in their order
        Merged(a, at) ==
            /\ WikiVerify(a, Range_new(at, at + n))
            /\ \A i \in at..(at + n - 1) :
                  /\ a[i] \in Items(input)
                  /\ a[i].index \in lv.A.start..(lv.B.end - 1)
            /\ \A i, j \in at..(at + n - 1) : i # j => a[i].index # a[j].index
    IN  /\ pc = "MergeInto returned" => Merged(cache, 0) /\ array = input
        /\ pc = "MergeExternal returned" => Merged(array, lv.A.start)
        /\ pc = "MergeInternal returned" => Merged(array, lv.A.start)
        /\ pc = "MergeInPlace returned" => Merged(array, lv.A.start)

\* MergeInPlace has merged runs with equal items on both sides
C18_MergesStableWitness ==
    /\ pc = "MergeInPlace returned"
    /\ Range_length(lv.A) = MaxRunLen /\ Range_length(lv.B) = MaxRunLen
    /\ array # input
    /\ \E i \in lv.A.start..(lv.B.end - 2) :
          /\ array[i].value = array[i + 1].value
          /\ array[i].index < lv.A.end /\ array[i + 1].index >= lv.B.start
    /\ WikiVerify(array, Range_new(lv.A.start, lv.B.end))

\* C19: MergeInternal, called with A's items swapped into buffer[0..|A|),
\* only swaps: A and B hold the stable merge, buffer[0..|A|) holds the items
\* that were in A's place, and no item outside A, B and the buffer has moved.
C19_MergeInternalSwaps ==
    pc = "MergeInternal returned" =>
        LET nA == Range_length(lv.A)
        IN  /\ WikiVerify(array, Range_new(lv.A.start, lv.B.end))
            /\ {array[i] : i \in lv.A.start..(lv.B.end - 1)} =
                   {input[i] : i \in lv.buffer.start..(lv.buffer.start + nA - 1)}
                       \cup {input[i] : i \in lv.B.start..(lv.B.end - 1)}
            /\ {array[lv.buffer.start + i] : i \in 0..(nA - 1)} =
                   {input[lv.A.start + i] : i \in 0..(nA - 1)}
            /\ \A i \in DOMAIN array :
                  (i < lv.A.start \/ (i >= lv.B.end /\ i < lv.buffer.start)
                     \/ i >= lv.buffer.end) => array[i] = input[i]
            /\ Items(array) = Items(input) /\ DOMAIN array = DOMAIN input

\* a merge that ended with B used up, the rest of A swapped out of the buffer
C19_MergeInternalSwapsWitness ==
    /\ pc = "MergeInternal returned"
    /\ Range_length(lv.A) = MaxRunLen /\ Range_length(lv.B) >= 2
    /\ array[lv.B.end - 1].index < lv.A.end
    /\ array[lv.A.start].index >= lv.B.start
    /\ \E i \in 0..(MaxRunLen - 1) :
          array[lv.buffer.start + i] # input[lv.A.start + i]
    /\ WikiVerify(array, Range_new(lv.A.start, lv.B.end))

\* C20: when both pulls are done (lines 1121-1148), the `count` values of
\* each pull record lie side by side at the `to` edge of its run: the first
\* count slots of the A run for a pull to the left, the last count slots of
\* the B run for a pull to the right.  They are strictly ascending; each is
\* the first (left) or the last (right) of the items of its value in its
\* run; every run still holds its own items and those not pulled are in
\* the order they had.
C20_Pulled ==
    (pc = "pull" /\ lv.pull_index >= 2 /\ TotalOrderCall) =>
        LET runs == LevelWalk(iterator).runs
            active == {k \in 0..1 : lv.pull[k].count > 0}
            Left(p) == p.to = p.range.start
            Region(p) == IF Left(p) THEN Range_new(p.to, p.to + p.count)
                         ELSE Range_new(p.to - p.count, p.to)
            Within(i, r) == i >= r.start /\ i < r.end
            Pulled(i) == \E k \in active : Within(i, Region(lv.pull[k]))
            Before(x, y) ==
                \/ Compare(x, y) < 0
                \/ Compare(x, y) = 0 /\ x.index < y.index
        IN  /\ \A k \in active :
                  LET p == lv.pull[k]
                  IN  \E r \in 1..Len(runs) :
                          /\ IF Left(p) THEN r % 2 = 1 /\ runs[r].start = p.to
                             ELSE r % 2 = 0 /\ runs[r].end = p.to
                          /\ Region(p).start >= runs[r].start
                          /\ Region(p).end <= runs[r].end
                          /\ \A i \in Region(p).start..(Region(p).end - 2) :
                                Compare(array[i], array[i + 1]) < 0
                          /\ \A i \in Region(p).start..(Region(p).end - 1) :
                                \A j \in runs[r].start..(runs[r].end - 1) :
                                    (~Pulled(j) /\ Compare(array[i], array[j]) = 0) =>
                                        IF Left(p) THEN array[i].index < array[j].index
                                        ELSE array[i].index > array[j].index
            /\ \A r \in 1..Len(runs) :
                  /\ \A i \in runs[r].start..(runs[r].end - 1) :
                        Within(array[i].index, runs[r])
                  /\ \A i, j \in runs[r].start..(runs[r].end - 1) :
                        (i < j /\ ~Pulled(i) /\ ~Pulled(j)) =>
                            Before(array[i], array[j])

\* both pulls done, one to the left and one to the right, each of several
\* values that had equal items between them
C20_PulledWitness ==
    /\ pc = "pull" /\ lv.pull_index >= 2 /\ TotalOrderCall
    /\ \E k \in 0..1 :
          /\ lv.pull[k].count >= 2
          /\ lv.pull[k].to = lv.pull[k].range.start
          /\ Compare(array[lv.pull[k].to + lv.pull[k].count - 1],
                     array[lv.pull[k].to + lv.pull[k].count]) > 0
    /\ \E k \in 0..1 :
          /\ lv.pull[k].count >= 2
          /\ lv.pull[k].to # lv.pull[k].range.start
          /\ Compare(array[lv.pull[k].to - lv.pull[k].count - 1],
                     array[lv.pull[k].to - lv.pull[k].count]) > 0

\* C21: the redistribution undoes the pull.  When the loop of line 1389 has
\* run for both pull records, the recorded range of each, and the whole pair
\* of runs it lies in, is sorted with equal items in the order of the input.
\* Each pass of a redistribution loop gives back one item and lowers unique
\* by 2 from 2 * count, so the loop makes exactly count passes.
C21_Redistributed ==
    TotalOrderCall =>
        /\ (pc = "redistribute" /\ lv.pull_index >= 2) =>
              \A k \in 0..1 :
                  lv.pull[k].count > 0 =>
                      LET p == lv.pull[k]
                          runs == LevelWalk(iterator).runs
                      IN  /\ RangeOK(p.range)
                          /\ Range_length(p.range) >= p.count
                          /\ WikiVerify(array, p.range)
                          /\ \E r \in 1..(Len(runs) - 1) :
                                /\ r % 2 = 1
                                /\ runs[r].start = p.range.start
                                /\ p.range.end <= runs[r + 1].end
                                /\ WikiVerify(array, Range_new(runs[r].start,
                                                               runs[r + 1].end))
        /\ pc \in {"redistribute right", "redistribute left"} =>
              /\ Range_length(lv.buffer) <= lv.pull[lv.pull_index].count
              /\ lv.unique = 2 * Range_length(lv.buffer)

\* both buffers given back, one to the right and one to the left, the first
\* item of the left one now before an equal item
C21_RedistributedWitness ==
    /\ pc = "redistribute" /\ lv.pull_index >= 2 /\ TotalOrderCall
    /\ \E k \in 0..1 :
          /\ lv.pull[k].count >= 2
          /\ lv.pull[k].from > lv.pull[k].to
          /\ Compare(array[lv.pull[k].range.start],
                     array[lv.pull[k].range.start + 1]) = 0
          /\ WikiVerify(array, lv.pull[k].range)
    /\ \E k \in 0..1 :
          /\ lv.pull[k].count >= 2
          /\ lv.pull[k].from < lv.pull[k].to
          /\ WikiVerify(array, lv.pull[k].range)

\* C22: with block_size = run_len / |buffer1| + 1 (line 1154), for every
\* pair of runs of the level, with the pulled buffers taken off, the loop of
\* lines 1228-1231 tags at most |buffer1| blocks of A: its swaps stay
\* inside buffer1.
C22_TagsFit ==
    pc = "merge" =>
        LET runs == LevelWalk(iterator).runs
        IN  /\ Range_length(lv.buffer1) > 0
            /\ lv.block_size =
                   WikiIterator_length(iterator) \div Range_length(lv.buffer1) + 1
            /\ \A r \in 1..(Len(runs) - 1) :
                  r % 2 = 1 =>
                      LET s == StripPull(
                                   StripPull([A |-> runs[r], B |-> runs[r + 1],
                                              skip |-> FALSE],
                                             lv.pull[0], runs[r].start),
                                   lv.pull[1], runs[r].start)
                          firstA_end == s.A.start + (Range_length(s.A) % lv.block_size)
                      IN  ~s.skip =>
                              BlockCount(firstA_end, s.A.end, lv.block_size)
                                  <= Range_length(lv.buffer1)

\* the next pair is out of order and takes every item of buffer1 as a tag,
\* buffer1 being shorter than the buffer_size of line 937
C22_TagsFitWitness ==
    /\ pc = "merge" /\ ~WikiIterator_finished(iterator) /\ TotalOrderCall
    /\ Range_length(lv.buffer1) <
           WikiIterator_length(iterator) \div Sqrt(WikiIterator_length(iterator)) + 1
    /\ LET n1 == WikiIterator_nextRange(iterator)
           n2 == WikiIterator_nextRange(n1.me)
           s == StripPull(StripPull([A |-> n1.range, B |-> n2.range, skip |-> FALSE],
                                    lv.pull[0], n1.range.start),
                          lv.pull[1], n1.range.start)
       IN  /\ ~s.skip
           /\ Compare(array[s.B.end - 1], array[s.A.start]) >= 0
           /\ Compare(array[s.A.end], array[s.A.end - 1]) < 0
           /\ BlockCount(s.A.start + (Range_length(s.A) % lv.block_size), s.A.end,
                         lv.block_size) = Range_length(lv.buffer1)

\* C23: between the pairs of a level (pc = "merge") and when the last pair
\* is done (pc = "insertion") every tag is back.  The slots of each pull
\* that moved or set aside items (from # to) hold the items that were
\* extracted: of the run pulled from, the first (left) or last (right) item
\* of each of its count smallest (left) or largest (right) values.  Each
\* buffer holds the extracted items whose rank falls in its slots, buffer1
\* in ascending order, and so no extracted item is inside a merged run.
C23_TagsRestored ==
    (pc \in {"merge", "insertion"} /\ TotalOrderCall) =>
        LET runs == LevelWalk(iterator).runs
            Restored(p) ==
                LET left == p.to = p.range.start
                    region == IF left THEN Range_new(p.to, p.to + p.count)
                              ELSE Range_new(p.to - p.count, p.to)
                    homes == {r \in 1..Len(runs) :
                                 IF left THEN runs[r].start = p.to
                                 ELSE runs[r].end = p.to}
                    home == runs[CHOOSE r \in homes : TRUE]
                    items == {input[i] : i \in home.start..(home.end - 1)}
                    \* the first or last item of each value of the run
                    edge == {x \in items :
                                \A y \in items :
                                    Compare(x, y) = 0 =>
                                        IF left THEN x.index <= y.index
                                        ELSE x.index >= y.index}
                    extracted ==
                        {x \in edge :
                            Cardinality({y \in edge :
                                IF left THEN Compare(y, x) < 0
                                ELSE Compare(x, y) < 0}) < p.count}
                    \* the slot of each extracted item, by its rank
                    slot == [x \in extracted |->
                                region.start
                                    + Cardinality({y \in extracted : Compare(y, x) < 0})]
                    Holds(buffer) ==
                        {array[i] : i \in buffer.start..(buffer.end - 1)} =
                            {x \in extracted :
                                slot[x] >= buffer.start /\ slot[x] < buffer.end}
                IN  /\ homes # {}
                    /\ Cardinality(extracted) = p.count
                    /\ Holds(region)
                    /\ \A buffer \in {lv.buffer1, lv.buffer2} :
                          (/\ Range_length(buffer) > 0
                           /\ buffer.start >= region.start
                           /\ buffer.end <= region.end) => Holds(buffer)
        IN  /\ \A k \in 0..1 :
                  (lv.pull[k].count > 0 /\ lv.pull[k].from # lv.pull[k].to) =>
                      Restored(lv.pull[k])
            /\ \A buffer \in {lv.buffer1, lv.buffer2} :
                  Range_length(buffer) > 0 =>
                      \E k \in 0..1 :
                          /\ lv.pull[k].count > 0
                          /\ IF lv.pull[k].to = lv.pull[k].range.start
                             THEN /\ buffer.start >= lv.pull[k].to
                                  /\ buffer.end <= lv.pull[k].to + lv.pull[k].count
                             ELSE /\ buffer.start >= lv.pull[k].to - lv.pull[k].count
                                  /\ buffer.end <= lv.pull[k].to
            /\ \A i \in lv.buffer1.start..(lv.buffer1.end - 2) :
                  Compare(array[i], array[i + 1]) < 0

\* a block merge through buffer2 is over: buffer1 is in order again and
\* buffer2 is not
C23_TagsRestoredWitness ==
    /\ pc = "merge" /\ TotalOrderCall
    /\ iterator.decimal > 0
    /\ Range_length(lv.buffer1) >= 2 /\ Range_length(lv.buffer2) >= 2
    /\ \A i \in lv.buffer1.start..(lv.buffer1.end - 2) :
          Compare(array[i], array[i + 1]) < 0
    /\ \E i \in lv.buffer2.start..(lv.buffer2.end - 2) :
          Compare(array[i], array[i + 1]) > 0

\* C24: in the four-way path each of the three merges calls MergeInto only
\* when its pair is neither in reverse order (compare(B.last, A.first) < 0)
\* nor in order (compare(B.first, A.last) >= 0); a pair in reverse order is
\* copied swapped and a pair in order is copied as it stands.
C24_MergesOnlyUnordered ==
    (pc = "fourway" /\ ~WikiIterator_finished(iterator)) =>
        LET n1 == WikiIterator_nextRange(iterator)
            n2 == WikiIterator_nextRange(n1.me)
            n3 == WikiIterator_nextRange(n2.me)
            n4 == WikiIterator_nextRange(n3.me)
            r == FourWayPass(array, cache, n1.range, n2.range, n3.range, n4.range)
            AsClaimed(a, A, B, choice) ==
                LET reversed == Compare(a[B.end - 1], a[A.start]) < 0
                    ordered == Compare(a[B.start], a[A.end - 1]) >= 0
                IN  /\ choice = "merge" => ~reversed /\ ~ordered
                    /\ reversed => choice = "reversed"
                    /\ (~reversed /\ ordered) => choice = "in order"
        IN  /\ AsClaimed(array, n1.range, n2.range, r.choice[1])
            /\ ~r.skip =>
                  /\ AsClaimed(array, n3.range, n4.range, r.choice[2])
                  /\ AsClaimed(r.c, r.A3, r.B3, r.choice[3])

\* C25: when the first buffer was pulled to A.start and the second to B.end
\* of the same pair, the end of the first pull's range is B.end less the
\* second pull's count, which is where buffer2 starts; and a step of the
\* first buffer's redistribution searches and rotates below that point only,
\* leaving every item of buffer2's region where it is.
C25_FirstPullStopsAtBuffer2 ==
    [][LET SamePair ==
               /\ lv.pull[0].count > 0 /\ lv.pull[1].count > 0
               /\ lv.pull[0].to < lv.pull[0].from
               /\ lv.pull[1].from < lv.pull[1].to
               /\ lv.pull[0].range.start = lv.pull[1].range.start
           B_end == lv.pull[1].range.end
       IN  SamePair =>
               /\ lv.pull[0].to = lv.pull[0].range.start
               /\ lv.pull[1].to = B_end
               /\ lv.pull[0].range.end = B_end - lv.pull[1].count
               /\ lv.buffer2 = Range_new(B_end - lv.pull[1].count, B_end)
               /\ (/\ pc = "redistribute right"
                   /\ lv.pull_index = 0
                   /\ Range_length(lv.buffer) > 0
                   /\ pc' # "fault") =>
                       /\ lv.buffer.end <= lv'.index
                       /\ lv'.index <= lv.buffer2.start
                       /\ lv'.buffer.end <= lv.buffer2.start
                       /\ \A i \in 0..(len - 1) :
                              array'[i] # array[i] =>
                                  lv.buffer.start <= i /\ i < lv'.index]_vars

\* the first buffer is being given back next to a second buffer of the same
\* pair, and its search has run up to the start of buffer2
C25_FirstPullStopsAtBuffer2Witness ==
    /\ pc = "redistribute right"
    /\ lv.pull_index = 0
    /\ lv.pull[1].count > 0
    /\ lv.pull[1].from < lv.pull[1].to
    /\ lv.pull[0].range.start = lv.pull[1].range.start
    /\ lv.unique < 2 * lv.pull[0].count
    /\ lv.index = lv.buffer2.start
    /\ lv.index = lv.pull[0].range.end
    /\ array # input

C27_LevelsNest ==
    iterator # NoIterator =>
        /\ iterator.size >= MinLevel
        /\ iterator.denominator > 0
        /\ iterator.numerator < iterator.denominator
        /\ iterator.numerator_step < iterator.denominator
        /\ iterator.decimal_step <= iterator.size
        /\ pc = "nextLevel" =>
              LET n == WikiIterator_nextLevel(iterator)
                  old == LevelWalk(iterator).runs
                  new == LevelWalk(n.me).runs
              IN  /\ n.me.numerator_step < n.me.denominator
                  /\ n.more <=> n.me.decimal_step # iterator.size
                  /\ ~n.more <=> Len(new) = 1
                  /\ Len(old) = 2 * Len(new)
                  /\ \A j \in 1..Len(new) :
                        /\ new[j].start = old[2 * j - 1].start
                        /\ new[j].end = old[2 * j].end
                        /\ old[2 * j - 1].end = old[2 * j].start

\* nextLevel is about to join eight runs of both lengths into four, carrying
\* numerator_step over denominator
C27_LevelsNestWitness ==
    /\ pc = "nextLevel"
    /\ Len(LevelWalk(iterator).runs) = 8
    /\ 2 * iterator.numerator_step >= iterator.denominator
    /\ iterator.numerator_step > 0
    /\ WikiIterator_nextLevel(iterator).more
    /\ WikiIterator_nextLevel(iterator).me.numerator_step > 0
    /\ Len(LevelWalk(WikiIterator_nextLevel(iterator).me).runs) = 4

\* C28: at every level the driver merges, the iterator gives an even number
\* of runs, all non-empty and inside [0, N), so every A has its B; and when
\* the four-way path is taken the number of runs is a multiple of four, so
\* every pass of its loop gets A1, B1, A2 and B2 inside [0, N).
C28_RunsPairUp ==
    LET runs == LevelWalk(iterator).runs
        n1 == WikiIterator_nextRange(iterator)
        n2 == WikiIterator_nextRange(n1.me)
        n3 == WikiIterator_nextRange(n2.me)
        n4 == WikiIterator_nextRange(n3.me)
    IN  /\ pc \in {"level", "fourway", "twoway", "scan", "merge"} =>
              /\ Len(runs) % 2 = 0
              /\ \A k \in 1..Len(runs) : NonEmpty(runs[k])
        /\ (pc = "level" /\ WikiIterator_length(iterator) < cache_size /\ FourWayFits) =>
              Len(runs) % 4 = 0
        /\ pc = "fourway" => Len(runs) % 4 = 0
        /\ (pc \in {"twoway", "scan", "merge"} /\ ~WikiIterator_finished(iterator)) =>
              /\ NonEmpty(n1.range) /\ NonEmpty(n2.range)
              /\ n1.range.end = n2.range.start
        /\ (pc = "fourway" /\ ~WikiIterator_finished(iterator)) =>
              /\ NonEmpty(n1.range) /\ NonEmpty(n2.range)
              /\ NonEmpty(n3.range) /\ NonEmpty(n4.range)
              /\ n1.range.end = n2.range.start
              /\ n2.range.end = n3.range.start
              /\ n3.range.end = n4.range.start

\* the second pass of a four-way level of eight runs: the last four runs,
\* ending at N
C28_RunsPairUpWitness ==
    /\ pc = "fourway" /\ ~WikiIterator_finished(iterator)
    /\ iterator.decimal > 0
    /\ Len(LevelWalk(iterator).runs) = 8
    /\ len % 8 # 0
    /\ WikiIterator_nextRange(WikiIterator_nextRange(WikiIterator_nextRange(
           WikiIterator_nextRange(iterator).me).me).me).range.end = len

\* C29: from the end of the extraction to the end of the level's merges, a
\* non-empty buffer2 is inside the array, apart from buffer1 and at least
\* block_size (line 1154) long; the A block held aside (lastA) is at most
\* block_size long, so the BlockSwaps of lines 1249 and 1306 and the
\* MergeInternal of line 1291 stay inside buffer2.
C29_Buffer2HoldsABlock ==
    (pc \in {"merge", "roll", "dropped", "last", "in place"}
        /\ lv.pull_index >= 2 /\ Range_length(lv.buffer2) > 0) =>
        /\ RangeOK(lv.buffer2)
        /\ Range_length(lv.buffer1) > 0
        /\ lv.buffer1.end <= lv.buffer2.start \/ lv.buffer2.end <= lv.buffer1.start
        /\ lv.block_size =
               WikiIterator_length(iterator) \div Range_length(lv.buffer1) + 1
        /\ Range_length(lv.buffer2) >= lv.block_size
        /\ pc \in {"roll", "dropped", "last"} =>
              /\ Range_length(mv.lastA) <= lv.block_size
              /\ Range_length(mv.lastA) <= Range_length(lv.buffer2)
              /\ Range_length(mv.blockA) % lv.block_size = 0
              /\ mv.lastA.end <= lv.buffer2.start \/ lv.buffer2.end <= mv.lastA.start

\* a full A block has just been dropped and is about to be swapped into a
\* buffer2 of one item more than block_size
C29_Buffer2HoldsABlockWitness ==
    /\ pc = "dropped" /\ TotalOrderCall
    /\ lv.block_size > cache_size
    /\ Range_length(lv.buffer2) = lv.block_size + 1
    /\ Range_length(mv.blockA) >= lv.block_size

\* C30: no division by zero.  buffer1 is not empty when line 1154 divides
\* by its length, nor at any time after, and every search of the scan, of
\* the pulls and of the redistribution is given an estimate `unique` of at
\* least 1.
C30_NoDivisionByZero ==
    /\ fault # "division by zero"
    /\ (pc = "pull" /\ lv.pull_index >= 2) => Range_length(lv.buffer1) > 0
    /\ pc \in {"merge", "roll", "dropped", "last", "insertion", "redistribute",
               "redistribute right", "redistribute left"} =>
           /\ Range_length(lv.buffer1) > 0
           /\ lv.buffer_size = Range_length(lv.buffer1)
    /\ (pc = "scan" /\ ~WikiIterator_finished(iterator)) =>
           LET n1 == WikiIterator_nextRange(iterator)
               n2 == WikiIterator_nextRange(n1.me)
               ca == CountUniqueA(array, n1.range, lv.find, n1.range.start, 1)
               fa == FoundInA(lv, n1.range, n2.range, ca.index, ca.count)
               cb == CountUniqueB(array, n2.range, fa.l.find, n2.range.end - 1, 1)
           IN  /\ lv.find > 1 /\ fa.l.find > 1
               /\ 1 <= ca.count /\ ca.count <= lv.find
               /\ 1 <= cb.count /\ cb.count <= fa.l.find
               /\ SizeT(lv.find - Min(ca.count, lv.find - 1)) >= 1
               /\ SizeT(fa.l.find - Min(cb.count, fa.l.find - 1)) >= 1
    /\ pc \in {"pull left", "pull right"} =>
           /\ 1 <= lv.count /\ lv.count <= lv.pull[lv.pull_index].count
           /\ lv.count < lv.pull[lv.pull_index].count =>
                  SizeT(lv.pull[lv.pull_index].count - lv.count) >= 1
    /\ (pc \in {"redistribute right", "redistribute left"}
            /\ Range_length(lv.buffer) > 0) => lv.unique >= 1

\* the last search of a redistribution, with one item of the buffer left
\* and an estimate of 2
C30_NoDivisionByZeroWitness ==
    /\ pc \in {"redistribute right", "redistribute left"}
    /\ Range_length(lv.buffer) = 1
    /\ lv.unique = 2
    /\ lv.pull[lv.pull_index].count >= 2
    /\ Range_length(lv.buffer1) < lv.pull[0].count + lv.pull[1].count
====
